---------------------------- MODULE Spec2Model ----------------------------
(***************************************************************************)
(* Model of the streaming aggregate operator of yql                        *)
(* (libs/core/src/execution/streams/aggregate.rs), of the checkpoint       *)
(* coordinator (libs/stream/src/stream.rs), of the SQL expression and      *)
(* WINDOW parsers (libs/core/src/sql/parser.rs) and of the CSV reader and  *)
(* its schema inference (libs/dataset/src/dataset/csv_reader.rs).          *)
(*                                                                         *)
(* Spec        the AggregateManager alone: batches are fed to aggregate(), *)
(*             save_state() / load_state() round trips are taken.          *)
(* SpecBatch   one input fed to a fresh manager in pieces, then flushed.   *)
(* SpecRows    rows handed to a manager one at a time.                     *)
(* SpecRestore DataStream::try_new on the checkpoint of an earlier run,    *)
(*             whole or cut short.                                         *)
(* SpecStream  the pipeline source -> aggregate operator -> DataStream     *)
(*             with periodic and exit barriers and the save_state tasks;   *)
(*             SpecStreamFair runs the save tasks to their end,            *)
(*             SpecStreamPolled has a consumer that keeps polling.         *)
(* SpecStreamTicks  the pipeline without a shutdown signal, with several   *)
(*             timer ticks and a save_state_fn that can fail.              *)
(* SpecStreamErr    the pipeline with an upstream and expressions that can *)
(*             fail.                                                       *)
(* SpecStreamRepeat the pipeline with a source that can send a barrier     *)
(*             twice.                                                      *)
(* SpecForeign a manager restored from a checkpoint whose scalars are of   *)
(*             other variants than its schema declares, then flushed.      *)
(* SpecSql     expr and window applied to expressions and WINDOW clauses.  *)
(* SpecCsv     infer_schema applied to the records of a file.              *)
(* SpecRead    successive read_batch calls of a CsvReader on a file;       *)
(*             SpecReadFair runs every call to its end.                    *)
(* SpecCut     the event loop of the aggregate operator with its whole     *)
(*             input and output recorded, a barrier taken between the      *)
(*             events and a second pipeline restored from it.              *)
(***************************************************************************)
EXTENDS Integers, Sequences, FiniteSets, TLC

VARIABLES
    manager,        \* the AggregateManager (aggregate.rs:58-65)
    inWatermark,    \* current_watermark of the last DataSet event
    nRows,          \* number of rows fed so far
    lastStarts,     \* window starts of the rows of the last batch
    prevStarts,     \* keys of manager.windows before the last aggregate() call
    emitted,        \* Vec<DataSet> returned by the last aggregate() call
    closedBefore,   \* starts of the windows emitted before the last call
    closed,         \* starts of the windows emitted so far
    blob,           \* Vec<u8> returned by the last save_state()
    savedFrom,      \* the manager at the time of that save_state()
    phase,          \* "running", "saved" (pipeline destroyed), "restored"; "built"
                    \* or "failed" after try_new, "feeding" and "flushed" in SpecBatch
    batch,          \* the rows of one input, fed in pieces (SpecBatch)
    ctx,            \* CreateStreamContext.prev_state (SpecRestore)
    damage,         \* where the blob given to load_state_fn was cut (SpecRestore)
    failures,       \* the checkpoints that failed
    hasSaveFn,      \* config.save_state_fn.is_some()
    barriers,       \* the CheckPointBarriers created so far, in creation order
    bcast,          \* barriers sent on tx_barrier and not yet received by the source
    srcOut,         \* the event in flight on the edge source -> aggregate
    srcDone,        \* the source stream has ended
    nEvents,        \* DataSet events yielded by the source
    aggPc,          \* the aggregate stream: "loop" or "done"
    aggPending,     \* events the aggregate stream has still to yield
    inLog,          \* the events received by the aggregate stream
    outLog,         \* the events yielded by the aggregate stream
    dsEnded,        \* DataStream::poll_next has returned Ready(None)
    delivered,      \* number of datasets DataStream has given to its consumer
    taskPc,         \* position of the save_state task spawned for each barrier
    persisted,      \* the calls of save_state_fn
    signalled,      \* the graceful-shutdown signal has fired
    text,           \* the text handed to a parser (SpecSql, SpecCsv)
    parsed,         \* what the parser returned for it, once it has run
    reader          \* a CsvReader on the file and its read_batch call (SpecRead)

parseVars == <<text, parsed, reader>>

mgrVars == <<manager, inWatermark, nRows, lastStarts, prevStarts, emitted,
             closedBefore, closed, blob, savedFrom, phase, batch, ctx, damage, failures, parseVars>>

streamVars == <<hasSaveFn, barriers, bcast, srcOut, srcDone, nEvents, aggPc,
                aggPending, inLog, outLog, dsEnded, delivered, taskPc,
                persisted, signalled>>

vars == <<mgrVars, streamVars>>

----------------------------------------------------------------------------
(* Bounds of the model *)

MaxRows == 3

MaxEvents == 2

MaxBarriers == 1

\* elements cut off the end of a checkpoint blob
MaxCut == 2

\* timer ticks of a stream that runs without a shutdown signal
MaxTicks == 2

----------------------------------------------------------------------------
(* Option<T>, maps, small helpers *)

None == [some |-> FALSE, val |-> 0]

Some(x) == [some |-> TRUE, val |-> x]

EmptyMap == [x \in {} |-> 0]

MapPut(m, k, v) == [x \in DOMAIN m \cup {k} |-> IF x = k THEN v ELSE m[x]]

MapRemove(m, k) == [x \in DOMAIN m \ {k} |-> m[x]]

Min(a, b) == IF a <= b THEN a ELSE b

\* Rust's i64 division truncates towards zero
TruncDiv(a, b) ==
    IF (a >= 0) = (b >= 0)
    THEN (IF a >= 0 THEN a ELSE -a) \div (IF b >= 0 THEN b ELSE -b)
    ELSE -((IF a >= 0 THEN a ELSE -a) \div (IF b >= 0 THEN b ELSE -b))

RECURSIVE SeqSum(_)
SeqSum(s) == IF s = <<>> THEN 0 ELSE Head(s) + SeqSum(Tail(s))

\* the elements of a set of integers in ascending order (BTreeMap iteration)
RECURSIVE Ascending(_)
Ascending(S) ==
    IF S = {} THEN <<>>
    ELSE LET m == CHOOSE x \in S : \A y \in S : x <= y
         IN  <<m>> \o Ascending(S \ {m})

\* the elements of a set in the iteration order of a hash map: some order,
\* the same for every walk of the same map
RECURSIVE HashOrder(_)
HashOrder(S) ==
    IF S = {} THEN <<>>
    ELSE LET m == CHOOSE x \in S : TRUE
         IN  <<m>> \o HashOrder(S \ {m})

----------------------------------------------------------------------------
(* Scalar, DataType, schema, rows *)

ScalarNull == [tag |-> "Null", i |-> 0, s |-> ""]

ScalarInt64(n) == [tag |-> "Int64", i |-> n, s |-> ""]

ScalarTimestamp(n) == [tag |-> "Timestamp", i |-> n, s |-> ""]

ScalarString(str) == [tag |-> "String", i |-> 0, s |-> str]

\* output schema of `select k, sum(v) ... group by k window ...`:
\* one field per aggregate expression plus the trailing timestamp column
Schema == << [name |-> "k", data_type |-> "String"],
             [name |-> "sum", data_type |-> "Int64"],
             [name |-> "@time", data_type |-> "Timestamp"] >>

\* the rows of the input edge: columns k, v and the time column; two groups
\* in window 0, one row in each of the next two windows of Fixed{1000}
RowSet == { [k |-> "a", v |-> 1, t |-> 100],
            [k |-> "b", v |-> 2, t |-> 100],
            [k |-> "a", v |-> 2, t |-> 1500],
            [k |-> "b", v |-> 1, t |-> 2500] }

\* the batches of at most n rows
DataSets(n) == UNION {[1..m -> RowSet] : m \in 0..n}

Watermarks == {None, Some(2000), Some(3000), Some(5000)}

WindowSet == { [kind |-> "Fixed", length |-> 1000, interval |-> 1000],
               [kind |-> "Sliding", length |-> 2000, interval |-> 1000] }

----------------------------------------------------------------------------
(* PhysicalExpr: a bound expression with a per-call state cell *)

ExprColumn(name) == [kind |-> "column", name |-> name, acc |-> ScalarNull]

ExprSum(name) == [kind |-> "sum", name |-> name, acc |-> ScalarNull]

GroupExprs == << ExprColumn("k") >>

AggrExprs == << ExprColumn("k"), ExprSum("v") >>

\* expr.eval(dataset): the expression with its state updated and the result
\* array, whose last cell is the running result
eval(expr, dataset) ==
    IF expr.kind = "sum"
    THEN LET base == IF expr.acc.tag = "Int64" THEN expr.acc.i ELSE 0
             arr  == [j \in 1..Len(dataset) |->
                        ScalarInt64(base + SeqSum([x \in 1..j |-> dataset[x].v]))]
         IN  [expr  |-> [expr EXCEPT !.acc = IF Len(dataset) = 0 THEN @
                                              ELSE arr[Len(dataset)]],
              array |-> arr]
    ELSE [expr  |-> expr,
          array |-> [j \in 1..Len(dataset) |-> ScalarString(dataset[j].k)]]

\* expr.save_state() / expr.load_state(data)
expr_save_state(expr) == expr.acc

expr_load_state(expr, data) == [expr EXCEPT !.acc = data]


----------------------------------------------------------------------------
(* bincode: values are written field after field; a Vec, a String and a map
   are prefixed by their length, an enum by its variant index.  A blob is
   modelled as the sequence of the integers written (one element per
   fixed-width integer or per string byte). *)

ScalarVariant == [Null |-> 0, Int64 |-> 4, String |-> 8, Timestamp |-> 9]

CharCode == [a |-> 97, b |-> 98]

Fail == [ok |-> FALSE, val |-> <<>>, rest |-> <<>>]

Ok(v, rest) == [ok |-> TRUE, val |-> v, rest |-> rest]

EncString(str) == <<1, CharCode[str]>>

DecString(input) ==
    IF Len(input) < 1 \/ Len(input) < 1 + input[1] THEN Fail
    ELSE IF input[1] = 1 /\ \E c \in DOMAIN CharCode : CharCode[c] = input[2]
    THEN Ok(CHOOSE c \in DOMAIN CharCode : CharCode[c] = input[2],
            SubSeq(input, 3, Len(input)))
    ELSE Fail

EncScalar(x) ==
    CASE x.tag = "Null"      -> <<ScalarVariant.Null>>
      [] x.tag = "Int64"     -> <<ScalarVariant.Int64, x.i>>
      [] x.tag = "Timestamp" -> <<ScalarVariant.Timestamp, x.i>>
      [] x.tag = "String"    -> <<ScalarVariant.String>> \o EncString(x.s)

DecScalar(input) ==
    IF Len(input) < 1 THEN Fail
    ELSE LET body == Tail(input) IN
         CASE input[1] = ScalarVariant.Null -> Ok(ScalarNull, body)
           [] input[1] = ScalarVariant.Int64 ->
                IF Len(body) < 1 THEN Fail ELSE Ok(ScalarInt64(body[1]), Tail(body))
           [] input[1] = ScalarVariant.Timestamp ->
                IF Len(body) < 1 THEN Fail ELSE Ok(ScalarTimestamp(body[1]), Tail(body))
           [] input[1] = ScalarVariant.String ->
                LET r == DecString(body)
                IN  IF r.ok THEN Ok(ScalarString(r.val), r.rest) ELSE Fail
           [] OTHER -> Fail

RECURSIVE EncScalars(_)
EncScalars(xs) == IF xs = <<>> THEN <<>> ELSE EncScalar(Head(xs)) \o EncScalars(Tail(xs))

\* Vec<Scalar>, also GroupedKey
EncScalarVec(xs) == <<Len(xs)>> \o EncScalars(xs)

\* ExprState: the bytes written by the expression for its state cell
EncExprState(st) == LET body == EncScalar(st) IN <<Len(body)>> \o body

DecExprState(input) ==
    IF Len(input) < 1 \/ input[1] < 0 \/ Len(input) < 1 + input[1] THEN Fail
    ELSE LET r == DecScalar(SubSeq(input, 2, 1 + input[1]))
         IN  IF r.ok /\ r.rest = <<>>
             THEN Ok(r.val, SubSeq(input, 2 + input[1], Len(input)))
             ELSE Fail

RECURSIVE EncExprStates(_)
EncExprStates(xs) ==
    IF xs = <<>> THEN <<>> ELSE EncExprState(Head(xs)) \o EncExprStates(Tail(xs))

EncExprStateVec(xs) == <<Len(xs)>> \o EncExprStates(xs)

\* one group: (GroupedKey, Vec<ExprState>, Vec<Scalar>)
EncGroup(g) == EncScalarVec(g[1]) \o EncExprStateVec(g[2]) \o EncScalarVec(g[3])

RECURSIVE EncGroups(_)
EncGroups(gs) == IF gs = <<>> THEN <<>> ELSE EncGroup(Head(gs)) \o EncGroups(Tail(gs))

\* SavedWindow = (i64, i64, Vec<group>)
EncSavedWindow(w) == <<w[1], w[2], Len(w[3])>> \o EncGroups(w[3])

RECURSIVE EncSavedWindows(_)
EncSavedWindows(ws) ==
    IF ws = <<>> THEN <<>> ELSE EncSavedWindow(Head(ws)) \o EncSavedWindows(Tail(ws))

\* bincode::serialize(&saved_state)
SerializeSavedState(st) ==
    EncExprStateVec(st.group_exprs) \o <<Len(st.windows)>> \o EncSavedWindows(st.windows)

\* the shapes serde derives for the saved types: an integer, a Scalar, an
\* ExprState, a Vec of one shape, a tuple or struct of several
TyI64 == [kind |-> "I64", of |-> <<>>]

TyScalar == [kind |-> "Scalar", of |-> <<>>]

TyExprState == [kind |-> "ExprState", of |-> <<>>]

TyVec(ty) == [kind |-> "Vec", of |-> <<ty>>]

TyTuple(tys) == [kind |-> "Tuple", of |-> tys]

\* SavedWindow = (i64, i64, Vec<(GroupedKey, Vec<ExprState>, Vec<Scalar>)>)
SavedWindowTy ==
    TyTuple(<<TyI64, TyI64,
              TyVec(TyTuple(<<TyVec(TyScalar), TyVec(TyExprState), TyVec(TyScalar)>>))>>)

\* struct SavedState { group_exprs, windows }
SavedStateTy == TyTuple(<<TyVec(TyExprState), TyVec(SavedWindowTy)>>)

Prepend(v, q) == IF q.ok THEN Ok(<<v>> \o q.val, q.rest) ELSE Fail

RECURSIVE Dec(_, _)
RECURSIVE DecFields(_, _)
RECURSIVE DecFieldsNext(_, _)
\* the values of the shapes tys read one after the other
DecFields(tys, input) ==
    IF tys = <<>> THEN Ok(<<>>, input)
    ELSE DecFieldsNext(tys, Dec(Head(tys), input))

DecFieldsNext(tys, r) ==
    IF ~r.ok THEN Fail ELSE Prepend(r.val, DecFields(Tail(tys), r.rest))

\* one value of shape ty read from the front of input
Dec(ty, input) ==
    CASE ty.kind = "I64" ->
            IF Len(input) < 1 THEN Fail ELSE Ok(input[1], Tail(input))
      [] ty.kind = "Scalar" -> DecScalar(input)
      [] ty.kind = "ExprState" -> DecExprState(input)
      [] ty.kind = "Vec" ->
            IF Len(input) < 1 \/ (Len(input) >= 1 /\ input[1] < 0) THEN Fail
            ELSE DecFields([i \in 1..input[1] |-> ty.of[1]], Tail(input))
      [] ty.kind = "Tuple" -> DecFields(ty.of, input)

\* the struct read as its fields
SavedStateOf(r) ==
    IF r.ok THEN Ok([group_exprs |-> r.val[1], windows |-> r.val[2]], r.rest) ELSE Fail

\* bincode::deserialize(&data): Err on a blob that ends early or is malformed
DeserializeSavedState(data) == SavedStateOf(Dec(SavedStateTy, data))

----------------------------------------------------------------------------
(* DataSetExt::group_by_window and group_by_exprs *)

\* the (start, end) windows a timestamp belongs to
windows_of(window, t) ==
    IF window.kind = "Fixed"
    THEN LET start == TruncDiv(t, window.length) * window.length
         IN  {<<start, start + window.length>>}
    ELSE LET last == TruncDiv(t, window.interval) * window.interval
         IN  { <<last - j * window.interval,
                 last - j * window.interval + window.length>> :
               j \in 0..(TruncDiv(window.length, window.interval) - 1) }

\* (start, end, rows of the window) for every window some row belongs to
group_by_window(dataset, window) ==
    LET all    == UNION {windows_of(window, dataset[j].t) : j \in 1..Len(dataset)}
        starts == Ascending({w[1] : w \in all})
        item(start) ==
            LET w == CHOOSE x \in all : x[1] = start
                In(row) == w \in windows_of(window, row.t)
            IN  <<start, w[2], SelectSeq(dataset, In)>>
    IN  [j \in 1..Len(starts) |-> item(starts[j])]

\* (GroupedKey, rows of the group) for every key of the dataset
group_by_exprs(dataset, group_exprs) ==
    LET key(row) == [i \in 1..Len(group_exprs) |->
                        eval(group_exprs[i], <<row>>).array[1]]
        keys     == HashOrder({key(dataset[j]) : j \in 1..Len(dataset)})
        item(k)  == LET In(row) == key(row) = k
                    IN  <<k, SelectSeq(dataset, In)>>
    IN  [j \in 1..Len(keys) |-> item(keys[j])]

----------------------------------------------------------------------------
(* AggregateManager *)

NewManager(window) ==
    [schema      |-> Schema,
     group_exprs |-> GroupExprs,
     aggr_exprs  |-> AggrExprs,
     window      |-> window,
     time_idx    |-> 2,
     windows     |-> EmptyMap]

\* a manager that starts a group afresh with every batch
process_dataset_fresh(windows, aggr_exprs, start, end, grouped_key, dataset) ==
    LET window_state ==
            IF start \in DOMAIN windows THEN windows[start]
            ELSE [start_time |-> start, end_time |-> end, children |-> EmptyMap]
        res(i) == eval(aggr_exprs[i], dataset)
        updated ==
            [aggr_exprs |-> [i \in 1..Len(aggr_exprs) |-> res(i).expr],
             values     |-> [i \in 1..Len(aggr_exprs) |-> res(i).array[Len(res(i).array)]]]
    IN  MapPut(windows, start,
               [window_state EXCEPT !.children = MapPut(@, grouped_key, updated)])

\* a manager whose groups of one window share their expressions: the state the
\* expressions of one group reach is seen by the other groups of the window
process_dataset_shared(windows, aggr_exprs, start, end, grouped_key, dataset) ==
    LET window_state ==
            IF start \in DOMAIN windows THEN windows[start]
            ELSE [start_time |-> start, end_time |-> end, children |-> EmptyMap]
        aggregate_state ==
            IF grouped_key \in DOMAIN window_state.children
            THEN window_state.children[grouped_key]
            ELSE [aggr_exprs |-> aggr_exprs,
                  values     |-> [i \in 1..Len(aggr_exprs) |-> ScalarNull]]
        res(i) == eval(aggregate_state.aggr_exprs[i], dataset)
        updated ==
            [aggr_exprs |-> [i \in 1..Len(aggregate_state.aggr_exprs) |-> res(i).expr],
             values     |-> [i \in 1..Len(aggregate_state.values) |->
                               res(i).array[Len(res(i).array)]]]
        shared ==
            [g \in DOMAIN window_state.children |->
                [window_state.children[g] EXCEPT !.aggr_exprs = updated.aggr_exprs]]
    IN  MapPut(windows, start,
               [window_state EXCEPT !.children = MapPut(shared, grouped_key, updated)])

\* AggregateManager::process_dataset, on the window map
process_dataset(windows, aggr_exprs, start, end, grouped_key, dataset) ==
    LET window_state ==
            IF start \in DOMAIN windows THEN windows[start]
            ELSE [start_time |-> start, end_time |-> end, children |-> EmptyMap]
        aggregate_state ==
            IF grouped_key \in DOMAIN window_state.children
            THEN window_state.children[grouped_key]
            ELSE [aggr_exprs |-> aggr_exprs,
                  values     |-> [i \in 1..Len(aggr_exprs) |-> ScalarNull]]
        n == Min(Len(aggregate_state.aggr_exprs), Len(aggregate_state.values))
        res(i) == eval(aggregate_state.aggr_exprs[i], dataset)
        updated ==
            [aggr_exprs |-> [i \in 1..Len(aggregate_state.aggr_exprs) |->
                               IF i <= n THEN res(i).expr
                               ELSE aggregate_state.aggr_exprs[i]],
             values     |-> [i \in 1..Len(aggregate_state.values) |->
                               IF i <= n THEN res(i).array[Len(res(i).array)]
                               ELSE aggregate_state.values[i]]]
    IN  MapPut(windows, start,
               [window_state EXCEPT !.children = MapPut(@, grouped_key, updated)])

RECURSIVE process_groups(_, _, _, _, _)
process_groups(windows, aggr_exprs, start, end, groups) ==
    IF groups = <<>> THEN windows
    ELSE process_groups(
            process_dataset(windows, aggr_exprs, start, end,
                            Head(groups)[1], Head(groups)[2]),
            aggr_exprs, start, end, Tail(groups))

\* aggregate.rs:169-176: every (window, group) of the batch is accumulated
RECURSIVE accumulate(_, _, _)
accumulate(mgr, windows, items) ==
    IF items = <<>> THEN windows
    ELSE accumulate(mgr,
            process_groups(windows, mgr.aggr_exprs, Head(items)[1], Head(items)[2],
                           group_by_exprs(Head(items)[3], mgr.group_exprs)),
            Tail(items))

\* aggregate.rs:181: the test that completes a window
window_completed_ge(current_watermark, window) == current_watermark >= window.end_time

window_completed(current_watermark, window) == current_watermark > window.end_time

\* aggregate.rs:178-190: the first entries of the map are removed while they
\* are completed
RECURSIVE drain(_, _)
drain(windows, current_watermark) ==
    IF DOMAIN windows = {} THEN [windows |-> windows, completed |-> <<>>]
    ELSE LET start  == CHOOSE x \in DOMAIN windows : \A y \in DOMAIN windows : x <= y
             window == windows[start]
         IN  IF window_completed(current_watermark, window)
             THEN LET r == drain(MapRemove(windows, start), current_watermark)
                  IN  [windows |-> r.windows, completed |-> <<window>> \o r.completed]
             ELSE [windows |-> windows, completed |-> <<>>]

\* a column that takes the stored scalar whatever its variant
cell_any(field, scalar) == scalar

\* append_primitive_value! and the String arm: the cell of one group
cell(field, scalar) == IF scalar.tag = field.data_type THEN scalar ELSE ScalarNull

\* the trailing column filled with the end of the window
window_stamp_end(window) == window.end_time

\* aggregate.rs:262-265: the trailing column holds window.start_time
window_stamp(window) == window.start_time

\* aggregate.rs:192-269: the dataset of one completed window
materialize(mgr, window) ==
    LET order == HashOrder(DOMAIN window.children)
        column(index) ==
            [r \in 1..Len(order) |->
                cell(mgr.schema[index], window.children[order[r]].values[index])]
    IN  [schema  |-> mgr.schema,
         columns |-> [index \in 1..Len(mgr.aggr_exprs) |-> column(index)]
                     \o << [r \in 1..Len(order) |-> ScalarTimestamp(window_stamp(window))] >>]

\* the drain run whatever the watermark, None counting as the end of time
drain_on_any(windows, current_watermark) ==
    drain(windows, IF current_watermark.some THEN current_watermark.val ELSE 1000000)

\* aggregate.rs:178-190: windows are completed only under a watermark
drain_on(windows, current_watermark) ==
    IF current_watermark.some THEN drain(windows, current_watermark.val)
    ELSE [windows |-> windows, completed |-> <<>>]

\* AggregateManager::aggregate: the manager afterwards and the Vec<DataSet>
aggregate(mgr, dataset, current_watermark) ==
    LET acc == accumulate(mgr, mgr.windows, group_by_window(dataset, mgr.window))
        d   == drain_on(acc, current_watermark)
    IN  [manager  |-> [mgr EXCEPT !.windows = d.windows],
         datasets |-> [j \in 1..Len(d.completed) |-> materialize(mgr, d.completed[j])]]

\* AggregateManager::save_state
save_state(mgr) ==
    LET starts == Ascending(DOMAIN mgr.windows)
        groups(window) ==
            LET order == HashOrder(DOMAIN window.children)
            IN  [j \in 1..Len(order) |->
                    <<order[j],
                      [i \in 1..Len(window.children[order[j]].aggr_exprs) |->
                          expr_save_state(window.children[order[j]].aggr_exprs[i])],
                      window.children[order[j]].values>>]
        saved_state ==
            [group_exprs |-> [i \in 1..Len(mgr.group_exprs) |->
                                 expr_save_state(mgr.group_exprs[i])],
             windows     |-> [j \in 1..Len(starts) |->
                                 <<starts[j], mgr.windows[starts[j]].end_time,
                                   groups(mgr.windows[starts[j]])>>]]
    IN  SerializeSavedState(saved_state)

\* load_groups with the saved scalars dropped
RECURSIVE load_groups_fresh_values(_, _, _)
load_groups_fresh_values(mgr, children, groups) ==
    IF groups = <<>> THEN children
    ELSE LET g == Head(groups)
             aggregate_state ==
                [aggr_exprs |-> [i \in 1..Len(mgr.aggr_exprs) |->
                                   IF i <= Len(g[2])
                                   THEN expr_load_state(mgr.aggr_exprs[i], g[2][i])
                                   ELSE mgr.aggr_exprs[i]],
                 values     |-> [i \in 1..Len(mgr.aggr_exprs) |-> ScalarNull]]
         IN  load_groups_fresh_values(mgr, MapPut(children, g[1], aggregate_state),
                                      Tail(groups))

\* aggregate.rs:81-90: the children of one saved window
RECURSIVE load_groups(_, _, _)
load_groups(mgr, children, groups) ==
    IF groups = <<>> THEN children
    ELSE LET g == Head(groups)
             aggregate_state ==
                [aggr_exprs |-> [i \in 1..Len(mgr.aggr_exprs) |->
                                   IF i <= Len(g[2])
                                   THEN expr_load_state(mgr.aggr_exprs[i], g[2][i])
                                   ELSE mgr.aggr_exprs[i]],
                 values     |-> g[3]]
         IN  load_groups(mgr, MapPut(children, g[1], aggregate_state), Tail(groups))

\* a restore that files each window under its end_time
RECURSIVE load_windows_by_end(_, _, _)
load_windows_by_end(mgr, windows, saved) ==
    IF saved = <<>> THEN windows
    ELSE LET w == Head(saved)
             window_state == [start_time |-> w[1], end_time |-> w[2],
                              children   |-> load_groups(mgr, EmptyMap, w[3])]
         IN  load_windows_by_end(mgr, MapPut(windows, w[2], window_state), Tail(saved))

\* aggregate.rs:75-92
RECURSIVE load_windows(_, _, _)
load_windows(mgr, windows, saved) ==
    IF saved = <<>> THEN windows
    ELSE LET w == Head(saved)
             window_state == [start_time |-> w[1], end_time |-> w[2],
                              children   |-> load_groups(mgr, EmptyMap, w[3])]
         IN  load_windows(mgr, MapPut(windows, w[1], window_state), Tail(saved))

\* AggregateManager::load_state: Ok(manager) or Err
load_state(mgr, data) ==
    LET r == DeserializeSavedState(data) IN
    IF ~r.ok THEN [ok |-> FALSE, manager |-> mgr]
    ELSE [ok |-> TRUE,
          manager |->
            [mgr EXCEPT
               !.group_exprs = [i \in 1..Len(mgr.group_exprs) |->
                                  IF i <= Len(r.val.group_exprs)
                                  THEN expr_load_state(mgr.group_exprs[i],
                                                       r.val.group_exprs[i])
                                  ELSE mgr.group_exprs[i]],
               !.windows = load_windows(mgr, mgr.windows, r.val.windows)]]

----------------------------------------------------------------------------
(* The manager alone: batches, save_state, load_state *)

NoBlob == [some |-> FALSE, val |-> <<>>]

\* watermarks on one edge are non-decreasing, None only before the first one
watermark_follows(prev, next) == prev.some => (next.some /\ next.val >= prev.val)

\* the window start written in the trailing column of each dataset
starts_of(datasets) ==
    {datasets[j].columns[Len(datasets[j].columns)][1].i : j \in 1..Len(datasets)}

\* the starts of the windows the rows of a batch belong to
batch_starts(window, dataset) ==
    {w[1] : w \in UNION {windows_of(window, dataset[j].t) : j \in 1..Len(dataset)}}

\* no CsvReader is open
NoReader == [pc |-> "none"]

\* no parser has been given anything
ParseIdle ==
    /\ text = <<>>
    /\ parsed = <<>>
    /\ reader = NoReader

\* the pipeline variables when no pipeline runs
StreamIdle ==
    /\ hasSaveFn = FALSE
    /\ barriers = <<>>
    /\ bcast = <<>>
    /\ srcOut = <<>>
    /\ srcDone = FALSE
    /\ nEvents = 0
    /\ aggPc = "loop"
    /\ aggPending = <<>>
    /\ inLog = <<>>
    /\ outLog = <<>>
    /\ dsEnded = FALSE
    /\ delivered = 0
    /\ taskPc = <<>>
    /\ persisted = <<>>
    /\ signalled = FALSE

InitManager ==
    /\ \E w \in WindowSet : manager = NewManager(w)
    /\ inWatermark = None
    /\ nRows = 0
    /\ lastStarts = {}
    /\ prevStarts = {}
    /\ closedBefore = {}
    /\ emitted = <<>>
    /\ closed = {}
    /\ blob = NoBlob
    /\ savedFrom = NewManager(CHOOSE w \in WindowSet : TRUE)
    /\ phase = "running"
    /\ batch = <<>>
    /\ ctx = EmptyMap
    /\ damage = "none"
    /\ ParseIdle
    /\ failures = <<>>
    /\ StreamIdle

\* one DataSet event handled by manager.aggregate (aggregate.rs:305-306)
Aggregate ==
    /\ phase \in {"running", "restored"}
    /\ \E dataset \in DataSets(MaxRows - nRows),
          current_watermark \in {w \in Watermarks : watermark_follows(inWatermark, w)} :
        /\ \E r \in {aggregate(manager, dataset, current_watermark)} :
             /\ manager' = r.manager
             /\ emitted' = r.datasets
             /\ closed' = closed \cup starts_of(r.datasets)
        /\ inWatermark' = current_watermark
        /\ nRows' = nRows + Len(dataset)
        /\ lastStarts' = batch_starts(manager.window, dataset)
        /\ prevStarts' = DOMAIN manager.windows
        /\ closedBefore' = closed
        /\ phase' = "running"
        /\ UNCHANGED <<blob, savedFrom, batch, ctx, damage, failures, parseVars>>
        /\ UNCHANGED streamVars

\* manager.save_state() at a barrier (aggregate.rs:312); the pipeline is then
\* destroyed
SaveState ==
    /\ phase = "running"
    /\ blob' = [some |-> TRUE, val |-> save_state(manager)]
    /\ savedFrom' = manager
    /\ phase' = "saved"
    /\ UNCHANGED <<manager, inWatermark, nRows, lastStarts, prevStarts, emitted,
                   closedBefore, closed, batch, ctx, damage, failures, parseVars>>
    /\ UNCHANGED streamVars

\* a fresh manager of the same plan loads the blob (aggregate.rs:288-298)
LoadState ==
    /\ phase = "saved"
    /\ \E r \in {load_state(NewManager(manager.window), blob.val)} :
         /\ r.ok
         /\ manager' = r.manager
    /\ phase' = "restored"
    /\ UNCHANGED <<inWatermark, nRows, lastStarts, prevStarts, emitted, closedBefore,
                   closed, blob, savedFrom, batch, ctx, damage, failures, parseVars>>
    /\ UNCHANGED streamVars

NextManager == Aggregate \/ SaveState \/ LoadState

Spec == InitManager /\ [][NextManager]_vars

----------------------------------------------------------------------------
(* One input fed to a fresh manager in pieces, then flushed *)

\* a watermark past every window of the rows of RowSet
FlushWatermark == Some(5000)

InitBatch ==
    /\ \E w \in WindowSet : manager = NewManager(w)
    /\ batch \in DataSets(MaxRows)
    /\ ctx = EmptyMap
    /\ damage = "none"
    /\ ParseIdle
    /\ failures = <<>>
    /\ inWatermark = None
    /\ nRows = 0
    /\ lastStarts = {}
    /\ prevStarts = {}
    /\ closedBefore = {}
    /\ emitted = <<>>
    /\ closed = {}
    /\ blob = NoBlob
    /\ savedFrom = NewManager(CHOOSE w \in WindowSet : TRUE)
    /\ phase = "feeding"
    /\ StreamIdle

\* the next n rows arrive in a DataSet event without watermark
FeedPart ==
    /\ phase = "feeding"
    /\ \E n \in 1..(Len(batch) - nRows) :
         /\ \E r \in {aggregate(manager, SubSeq(batch, nRows + 1, nRows + n), None)} :
              /\ manager' = r.manager
              /\ emitted' = r.datasets
         /\ nRows' = nRows + n
    /\ prevStarts' = DOMAIN manager.windows
    /\ UNCHANGED <<inWatermark, lastStarts, closedBefore, closed, blob,
                   savedFrom, phase, batch, ctx, damage, failures, parseVars>>
    /\ UNCHANGED streamVars

\* the remaining rows arrive with a watermark past every window
FlushAll ==
    /\ phase = "feeding"
    /\ \E r \in {aggregate(manager, SubSeq(batch, nRows + 1, Len(batch)), FlushWatermark)} :
         /\ manager' = r.manager
         /\ emitted' = r.datasets
    /\ nRows' = Len(batch)
    /\ inWatermark' = FlushWatermark
    /\ phase' = "flushed"
    /\ UNCHANGED <<lastStarts, prevStarts, closedBefore, closed, blob, savedFrom,
                   batch, ctx, damage, failures, parseVars>>
    /\ UNCHANGED streamVars

NextBatch == FeedPart \/ FlushAll

SpecBatch == InitBatch /\ [][NextBatch]_vars

----------------------------------------------------------------------------
(* CheckPointBarrier: node_count, source_count, is_exit, the states written
   by the nodes and the two pending counters *)

SourceId == 0

AggregateId == 1

\* the plan `source -> aggregate`: ids of the nodes that checkpoint
StatefulNodes == {SourceId, AggregateId}

\* CheckPointBarrier::new(node_count, source_count, is_exit)
NewBarrier(node_count, source_count, is_exit) ==
    [is_exit         |-> is_exit,
     states          |-> EmptyMap,
     pending_sources |-> source_count,
     pending_nodes   |-> node_count]

is_saved(barrier, id) == id \in DOMAIN barrier.states

\* barrier.set_state(id, Some(bytes)): records the bytes, one node less pending
set_state(barrier, id, data) ==
    [barrier EXCEPT !.states = MapPut(@, id, data),
                    !.pending_nodes = @ - 1]

\* the source has forwarded the barrier
source_forwarded(barrier) == [barrier EXCEPT !.pending_sources = @ - 1]

\* barrier.wait() returns when both counters are zero
wait_returns(barrier) == barrier.pending_sources = 0 /\ barrier.pending_nodes = 0

\* barrier.take_state()
take_state(barrier) == barrier.states

\* bincode::serialize of the map node id -> bytes (stream.rs:153)
RECURSIVE EncStates(_, _)
EncStates(states, ids) ==
    IF ids = <<>> THEN <<>>
    ELSE <<Head(ids), Len(states[Head(ids)])>> \o states[Head(ids)]
         \o EncStates(states, Tail(ids))

SerializeStates(states) ==
    <<Cardinality(DOMAIN states)>> \o EncStates(states, HashOrder(DOMAIN states))

\* bincode::deserialize of that map (stream.rs:83)
RECURSIVE DecStatesN(_, _, _)
DecStatesN(n, input, states) ==
    IF n = 0 THEN Ok(states, input)
    ELSE IF Len(input) < 2 \/ (Len(input) >= 2 /\ input[2] < 0)
              \/ (Len(input) >= 2 /\ Len(input) < 2 + input[2])
    THEN Fail
    ELSE DecStatesN(n - 1, SubSeq(input, 3 + input[2], Len(input)),
                    MapPut(states, input[1], SubSeq(input, 3, 2 + input[2])))

DeserializeStates(data) ==
    IF Len(data) < 1 \/ (Len(data) >= 1 /\ data[1] < 0) THEN Fail
    ELSE DecStatesN(data[1], Tail(data), EmptyMap)

----------------------------------------------------------------------------
(* The pipeline source -> aggregate -> DataStream *)

EventDataSet(current_watermark, dataset) ==
    [kind |-> "DataSet", current_watermark |-> current_watermark,
     dataset |-> dataset, barrier |-> 0]

EventCreateCheckPoint(b) ==
    [kind |-> "CreateCheckPoint", current_watermark |-> None,
     dataset |-> <<>>, barrier |-> b]

\* the batches and watermarks the source of the pipeline yields
StreamBatches == { <<>>,
                   << [k |-> "a", v |-> 1, t |-> 100], [k |-> "a", v |-> 2, t |-> 1500] >> }

StreamWatermarks == {None, Some(5000)}

\* the plan's window
StreamWindow == [kind |-> "Fixed", length |-> 1000, interval |-> 1000]

node_count == Cardinality(StatefulNodes)

source_count == 1

InitStream ==
    /\ manager = NewManager(StreamWindow)
    /\ inWatermark = None
    /\ nRows = 0
    /\ lastStarts = {}
    /\ prevStarts = {}
    /\ emitted = <<>>
    /\ closedBefore = {}
    /\ closed = {}
    /\ blob = NoBlob
    /\ savedFrom = NewManager(CHOOSE w \in WindowSet : TRUE)
    /\ phase = "running"
    /\ batch = <<>>
    /\ ctx = EmptyMap
    /\ damage = "none"
    /\ ParseIdle
    /\ failures = <<>>
    /\ hasSaveFn \in BOOLEAN
    /\ barriers = <<>>
    /\ bcast = <<>>
    /\ srcOut = <<>>
    /\ srcDone = FALSE
    /\ nEvents = 0
    /\ aggPc = "loop"
    /\ aggPending = <<>>
    /\ inLog = <<>>
    /\ outLog = <<>>
    /\ dsEnded = FALSE
    /\ delivered = 0
    /\ taskPc = <<>>
    /\ persisted = <<>>
    /\ signalled = FALSE

mgrGhosts == <<nRows, lastStarts, prevStarts, emitted, closedBefore, closed, blob,
               savedFrom, phase, batch, ctx, damage, failures, parseVars>>

NumPeriodic == Cardinality({b \in 1..Len(barriers) : ~barriers[b].is_exit})

\* a stream that gives up checkpointing after a failed one
tick_creates_unless_failed == hasSaveFn /\ failures = <<>>

\* stream.rs:122-124: a tick creates a barrier when save_state_fn is configured
tick_creates == hasSaveFn

\* DataStream::poll_next, stream.rs:123-134: the interval has ticked
TickUpTo(n) ==
    /\ ~dsEnded
    /\ tick_creates
    /\ NumPeriodic < n
    /\ barriers' = Append(barriers, NewBarrier(node_count, source_count, FALSE))
    /\ bcast' = IF srcDone THEN bcast ELSE Append(bcast, Len(barriers) + 1)
    /\ taskPc' = Append(taskPc, "wait")
    /\ UNCHANGED <<manager, inWatermark, mgrGhosts, hasSaveFn, srcOut, srcDone, nEvents,
                   aggPc, aggPending, inLog, outLog, dsEnded, delivered,
                   persisted, signalled>>

Tick == TickUpTo(MaxBarriers)

\* the task of stream.rs:96-105: the shutdown signal has fired
Signal ==
    /\ ~signalled
    /\ signalled' = TRUE
    /\ barriers' = Append(barriers, NewBarrier(node_count, source_count, TRUE))
    /\ bcast' = IF srcDone THEN bcast ELSE Append(bcast, Len(barriers) + 1)
    /\ taskPc' = Append(taskPc, "none")
    /\ UNCHANGED <<manager, inWatermark, mgrGhosts, hasSaveFn, srcOut, srcDone, nEvents,
                   aggPc, aggPending, inLog, outLog, dsEnded, delivered,
                   persisted>>

\* the source yields a batch
SourceData ==
    /\ ~srcDone
    /\ srcOut = <<>>
    /\ nEvents < MaxEvents
    /\ \E dataset \in StreamBatches,
          current_watermark \in {w \in StreamWatermarks : watermark_follows(inWatermark, w)} :
         /\ srcOut' = <<EventDataSet(current_watermark, dataset)>>
         /\ inWatermark' = current_watermark
    /\ nEvents' = nEvents + 1
    /\ UNCHANGED <<manager, mgrGhosts, hasSaveFn, barriers, bcast, srcDone, aggPc,
                   aggPending, inLog, outLog, dsEnded, delivered, taskPc,
                   persisted, signalled>>

\* the source receives a barrier: it records its state and yields
\* CreateCheckPoint(barrier).  An upstream that honours an exit barrier ends
\* after it; the aggregate stream is also run against one that does not.
SourceBarrier ==
    /\ ~srcDone
    /\ srcOut = <<>>
    /\ bcast # <<>>
    /\ LET b == Head(bcast) IN
         /\ barriers' = [barriers EXCEPT ![b] =
                            source_forwarded(set_state(@, SourceId, <<nEvents>>))]
         /\ srcOut' = <<EventCreateCheckPoint(b)>>
         /\ srcDone' \in {barriers[b].is_exit, FALSE}
    /\ bcast' = Tail(bcast)
    /\ UNCHANGED <<manager, inWatermark, mgrGhosts, hasSaveFn, nEvents, aggPc,
                   aggPending, inLog, outLog, dsEnded, delivered, taskPc,
                   persisted, signalled>>

\* the source has no more data
SourceEnd ==
    /\ ~srcDone
    /\ srcOut = <<>>
    /\ srcDone' = TRUE
    /\ UNCHANGED <<manager, inWatermark, mgrGhosts, hasSaveFn, barriers, bcast, srcOut,
                   nEvents, aggPc, aggPending, inLog, outLog, dsEnded,
                   delivered, taskPc, persisted, signalled>>

\* aggregate.rs:303: input.next() is awaited when the body of the loop is over
agg_ready(pending) == pending = <<>>

\* the watermark of a yielded dataset when the event's own one is dropped
out_watermark_none(current_watermark) == None

\* aggregate.rs:307: the event's current_watermark is yielded with each dataset
out_watermark(current_watermark) == current_watermark

\* aggregate.rs:305-309: a DataSet event; the datasets of manager.aggregate are
\* yielded with the event's watermark
AggRecvDataSet ==
    /\ aggPc = "loop"
    /\ agg_ready(aggPending)
    /\ srcOut # <<>>
    /\ srcOut[1].kind = "DataSet"
    /\ \E r \in {aggregate(manager, srcOut[1].dataset, srcOut[1].current_watermark)} :
         /\ manager' = r.manager
         /\ aggPending' = [j \in 1..Len(r.datasets) |->
                             [event |-> EventDataSet(
                                           out_watermark(srcOut[1].current_watermark),
                                           r.datasets[j]),
                              cause |-> Len(inLog) + 1, idx |-> j]]
         /\ inLog' = Append(inLog, [kind |-> "DataSet", n |-> Len(r.datasets),
                                    current_watermark |-> srcOut[1].current_watermark])
    /\ srcOut' = <<>>
    /\ UNCHANGED <<inWatermark, mgrGhosts, hasSaveFn, barriers, bcast, srcDone, nEvents,
                   aggPc, outLog, dsEnded, delivered, taskPc, persisted,
                   signalled>>

\* an operator that records its state at every barrier it receives
agg_on_barrier_again(barrier, id, mgr) == set_state(barrier, id, save_state(mgr))

\* aggregate.rs:311-313: the state is recorded once under the operator's id
agg_on_barrier(barrier, id, mgr) ==
    IF ~is_saved(barrier, id) THEN set_state(barrier, id, save_state(mgr)) ELSE barrier

\* aggregate.rs:310-314: a CreateCheckPoint event
AggRecvBarrier ==
    /\ aggPc = "loop"
    /\ agg_ready(aggPending)
    /\ srcOut # <<>>
    /\ srcOut[1].kind = "CreateCheckPoint"
    /\ LET b == srcOut[1].barrier IN
         /\ barriers' = [barriers EXCEPT ![b] = agg_on_barrier(@, AggregateId, manager)]
         /\ aggPending' = << [event |-> EventCreateCheckPoint(b),
                              cause |-> Len(inLog) + 1, idx |-> 1] >>
    /\ inLog' = Append(inLog, [kind |-> "CreateCheckPoint", n |-> 1,
                               current_watermark |-> None])
    /\ srcOut' = <<>>
    /\ UNCHANGED <<manager, inWatermark, mgrGhosts, hasSaveFn, bcast, srcDone, nEvents,
                   aggPc, outLog, dsEnded, delivered, taskPc, persisted,
                   signalled>>

\* the next event the stream yields
next_yield_last(pending) == Len(pending)

next_yield(pending) == 1

\* aggregate.rs:315-317: the loop is left after an exit barrier
agg_breaks_never(event, barrier_list) == FALSE

agg_breaks(event, barrier_list) ==
    event.kind = "CreateCheckPoint" /\ barrier_list[event.barrier].is_exit

\* aggregate.rs:307 and 314 with stream.rs:136-140: DataStream::poll_next polls
\* the event stream, which yields one event; a dataset goes to the consumer, a
\* barrier is passed over
AggYield ==
    /\ ~dsEnded
    /\ aggPc = "loop"
    /\ aggPending # <<>>
    /\ LET i == next_yield(aggPending) IN
         /\ outLog' = Append(outLog, [kind    |-> aggPending[i].event.kind,
                                      current_watermark |->
                                          aggPending[i].event.current_watermark,
                                      barrier |-> aggPending[i].event.barrier,
                                      cause   |-> aggPending[i].cause,
                                      idx     |-> aggPending[i].idx])
         /\ delivered' = IF aggPending[i].event.kind = "DataSet"
                            THEN delivered + 1 ELSE delivered
         /\ aggPending' = [j \in 1..(Len(aggPending) - 1) |->
                              IF j < i THEN aggPending[j] ELSE aggPending[j + 1]]
         /\ aggPc' = IF agg_breaks(aggPending[i].event, barriers) THEN "done" ELSE "loop"
    /\ UNCHANGED <<manager, inWatermark, mgrGhosts, hasSaveFn, barriers, bcast, srcOut,
                   srcDone, nEvents, inLog, dsEnded, taskPc, persisted, signalled>>

\* aggregate.rs:303: the input has ended, the stream ends
AggEnd ==
    /\ aggPc = "loop"
    /\ agg_ready(aggPending)
    /\ srcOut = <<>>
    /\ srcDone
    /\ aggPc' = "done"
    /\ UNCHANGED <<manager, inWatermark, mgrGhosts, hasSaveFn, barriers, bcast, srcOut,
                   srcDone, nEvents, aggPending, inLog, outLog, dsEnded,
                   delivered, taskPc, persisted, signalled>>

\* stream.rs:142: the event stream has ended
PollEnd ==
    /\ ~dsEnded
    /\ aggPc = "done"
    /\ dsEnded' = TRUE
    /\ UNCHANGED <<manager, inWatermark, mgrGhosts, hasSaveFn, barriers, bcast, srcOut,
                   srcDone, nEvents, aggPc, aggPending, inLog, outLog,
                   delivered, taskPc, persisted, signalled>>

\* stream.rs:151: save_state goes on when barrier.wait() has returned
wait_skipped(barrier) == TRUE

wait_done(barrier) == wait_returns(barrier)

\* a failed checkpoint of barrier b
Failure(b, kind) == [barrier |-> b, kind |-> kind]

\* stream.rs:151-172: barrier.wait() has returned; the states are serialised
\* and handed to save_state_fn, whose result is only logged
SaveCall(b) ==
    /\ taskPc[b] = "wait"
    /\ wait_done(barriers[b])
    /\ persisted' = Append(persisted,
                           [barrier |-> b,
                            ids     |-> DOMAIN take_state(barriers[b]),
                            data    |-> SerializeStates(take_state(barriers[b]))])
    /\ barriers' = [barriers EXCEPT ![b].states = EmptyMap]
    /\ taskPc' = [taskPc EXCEPT ![b] = "done"]
    /\ UNCHANGED <<manager, inWatermark, mgrGhosts, hasSaveFn, bcast, srcOut, srcDone,
                   nEvents, aggPc, aggPending, inLog, outLog, dsEnded,
                   delivered, signalled>>

\* stream.rs:151-162: barrier.wait() has returned and bincode::serialize fails,
\* the task returns
SaveSerializeFail(b) ==
    /\ taskPc[b] = "wait"
    /\ wait_done(barriers[b])
    /\ barriers' = [barriers EXCEPT ![b].states = EmptyMap]
    /\ taskPc' = [taskPc EXCEPT ![b] = "failed"]
    /\ failures' = Append(failures, Failure(b, "serialize"))
    /\ UNCHANGED <<manager, inWatermark, nRows, lastStarts, prevStarts, emitted,
                   closedBefore, closed, blob, savedFrom, phase, batch, ctx, damage, parseVars>>
    /\ UNCHANGED <<hasSaveFn, bcast, srcOut, srcDone, nEvents, aggPc, aggPending, inLog,
                   outLog, dsEnded, delivered, persisted, signalled>>

\* stream.rs:164-171: save_state_fn is called and returns Err, which is logged
SaveCallErr(b) ==
    /\ taskPc[b] = "wait"
    /\ wait_done(barriers[b])
    /\ persisted' = Append(persisted,
                           [barrier |-> b,
                            ids     |-> DOMAIN take_state(barriers[b]),
                            data    |-> SerializeStates(take_state(barriers[b]))])
    /\ barriers' = [barriers EXCEPT ![b].states = EmptyMap]
    /\ taskPc' = [taskPc EXCEPT ![b] = "done"]
    /\ failures' = Append(failures, Failure(b, "save_state_fn"))
    /\ UNCHANGED <<manager, inWatermark, nRows, lastStarts, prevStarts, emitted,
                   closedBefore, closed, blob, savedFrom, phase, batch, ctx, damage, parseVars>>
    /\ UNCHANGED <<hasSaveFn, bcast, srcOut, srcDone, nEvents, aggPc, aggPending, inLog,
                   outLog, dsEnded, delivered, signalled>>

\* at most MaxBarriers periodic barriers and the exit barrier
BarrierIds == 1..(MaxBarriers + 1)

SaveTaskCall == \E b \in 1..Len(barriers) : SaveCall(b)

SaveTaskSerializeFail == \E b \in 1..Len(barriers) : SaveSerializeFail(b)

NextStream ==
    \/ Tick
    \/ Signal
    \/ SourceData
    \/ SourceBarrier
    \/ SourceEnd
    \/ AggRecvDataSet
    \/ AggRecvBarrier
    \/ AggYield
    \/ AggEnd
    \/ PollEnd
    \/ SaveTaskCall
    \/ SaveTaskSerializeFail

SpecStream == InitStream /\ [][NextStream]_vars

\* a spawned save_state task is run by the executor until it returns
SaveTaskStep(b) ==
    b \in 1..Len(barriers) /\ (SaveCall(b) \/ SaveSerializeFail(b))

SpecStreamFair == SpecStream /\ \A b \in BarrierIds : WF_vars(SaveTaskStep(b))

SaveTaskCallErr == \E b \in 1..Len(barriers) : SaveCallErr(b)

TickAgain == TickUpTo(MaxTicks)

\* DataStream::try_new: a stream without a shutdown signal, whose save_state_fn
\* may fail
NextStreamTicks ==
    \/ TickAgain
    \/ SourceData
    \/ SourceBarrier
    \/ SourceEnd
    \/ AggRecvDataSet
    \/ AggRecvBarrier
    \/ AggYield
    \/ AggEnd
    \/ PollEnd
    \/ SaveTaskCall
    \/ SaveTaskCallErr
    \/ SaveTaskSerializeFail

SpecStreamTicks == InitStream /\ [][NextStreamTicks]_vars

\* the consumer keeps polling: DataStream::poll_next drives the event stream,
\* which drives the source, whichever of them has a step to take
PollStep ==
    \/ SourceBarrier
    \/ AggYield
    \/ AggEnd
    \/ PollEnd

\* aggregate.rs:303-304: an event of the input is ready to be matched.  The
\* steps AggRecvDataSet and AggRecvBarrier are enabled exactly then and each
\* of them ends it, so their weak fairness is []<>~AggRecvReady.
AggRecvReady == aggPc = "loop" /\ agg_ready(aggPending) /\ srcOut # <<>>

SpecStreamPolled == SpecStream /\ WF_vars(PollStep) /\ []<>~AggRecvReady

----------------------------------------------------------------------------
(* Rows handed to the manager one at a time *)

\* event times of the rows, in ms since the epoch (before it when negative)
TimeSet == {-1500, -500, 0, 500, 999, 1000, 1500, 2500}

FixedWindows == { [kind |-> "Fixed", length |-> 1000, interval |-> 1000],
                  [kind |-> "Fixed", length |-> 400, interval |-> 400] }

SlidingWindows == { [kind |-> "Sliding", length |-> 2000, interval |-> 1000],
                    [kind |-> "Sliding", length |-> 1200, interval |-> 400] }

InitRows ==
    /\ \E w \in FixedWindows \cup SlidingWindows : manager = NewManager(w)
    /\ inWatermark = None
    /\ nRows = 0
    /\ lastStarts = {}
    /\ prevStarts = {}
    /\ closedBefore = {}
    /\ emitted = <<>>
    /\ closed = {}
    /\ blob = NoBlob
    /\ savedFrom = NewManager(CHOOSE w \in WindowSet : TRUE)
    /\ phase = "running"
    /\ batch = <<>>
    /\ ctx = EmptyMap
    /\ damage = "none"
    /\ ParseIdle
    /\ failures = <<>>
    /\ StreamIdle

\* aggregate.rs:169-176: a batch of one row goes through group_by_window and
\* process_dataset
AggregateRow ==
    /\ nRows < MaxRows
    /\ \E t \in TimeSet :
         /\ \E r \in {aggregate(manager, << [k |-> "a", v |-> 1, t |-> t] >>, None)} :
              /\ manager' = r.manager
              /\ emitted' = r.datasets
         /\ batch' = Append(batch, [k |-> "a", v |-> 1, t |-> t])
         /\ lastStarts' = batch_starts(manager.window, << [k |-> "a", v |-> 1, t |-> t] >>)
    /\ prevStarts' = DOMAIN manager.windows
    /\ nRows' = nRows + 1
    /\ UNCHANGED <<inWatermark, closedBefore, closed, blob, savedFrom, phase, ctx,
                   damage, failures, parseVars>>
    /\ UNCHANGED streamVars

SpecRows == InitRows /\ [][AggregateRow]_vars

----------------------------------------------------------------------------
(* A manager restored from the checkpoint of another plan, then flushed *)

\* the scalars such a checkpoint holds for a group
StoredScalars == {ScalarNull, ScalarInt64(3), ScalarString("a"), ScalarTimestamp(5)}

\* the manager that wrote the checkpoint: one window, with the values vals
ForeignManager(window, vals) ==
    [NewManager(window) EXCEPT
        !.windows = MapPut(EmptyMap, 0,
                       [start_time |-> 0,
                        end_time   |-> window.length,
                        children   |-> [key \in {<<ScalarString(k)>> : k \in DOMAIN vals} |->
                                          [aggr_exprs |-> AggrExprs,
                                           values     |-> vals[key[1].s]]]])]

InitForeign ==
    /\ \E w \in WindowSet, keys \in (SUBSET {"a", "b"}) \ {{}} :
         \E vals \in [keys -> [1..Len(AggrExprs) -> StoredScalars]] :
            /\ manager = NewManager(w)
            /\ savedFrom = ForeignManager(w, vals)
            /\ blob = [some |-> TRUE, val |-> save_state(ForeignManager(w, vals))]
    /\ inWatermark = None
    /\ nRows = 0
    /\ lastStarts = {}
    /\ prevStarts = {}
    /\ closedBefore = {}
    /\ emitted = <<>>
    /\ closed = {}
    /\ phase = "saved"
    /\ batch = <<>>
    /\ ctx = EmptyMap
    /\ damage = "none"
    /\ ParseIdle
    /\ failures = <<>>
    /\ StreamIdle

\* an empty batch with a watermark past every window (aggregate.rs:178-269)
FlushRestored ==
    /\ phase = "restored"
    /\ \E r \in {aggregate(manager, <<>>, FlushWatermark)} :
         /\ manager' = r.manager
         /\ emitted' = r.datasets
    /\ inWatermark' = FlushWatermark
    /\ prevStarts' = DOMAIN manager.windows
    /\ phase' = "flushed"
    /\ UNCHANGED <<nRows, lastStarts, closedBefore, closed, blob, savedFrom,
                   batch, ctx, damage, failures, parseVars>>
    /\ UNCHANGED streamVars

NextForeign == LoadState \/ FlushRestored

SpecForeign == InitForeign /\ [][NextForeign]_vars

----------------------------------------------------------------------------
(* Errors on the event stream *)

\* the errors an upstream can yield
UpstreamErrors == {"e1", "e2"}

\* the error of a failed PhysicalExpr::eval
EvalError == "eval"

EventErr(e) ==
    [kind |-> "Err", current_watermark |-> None, dataset |-> <<>>, barrier |-> 0,
     error |-> e]

\* an operator that yields an error of its own for any error
agg_error_own(e) == "aggregate"

\* aggregate.rs:303 and 306: `?` hands the error to the stream as it is
agg_error(e) == e

\* an operator that goes on with the next event after an error
agg_after_error_loop == "loop"

\* aggregate.rs:302-306: try_stream! ends the stream after the Err it yields
agg_after_error == "done"

\* the upstream yields an error and ends
SourceErr ==
    /\ ~srcDone
    /\ srcOut = <<>>
    /\ nEvents < MaxEvents
    /\ \E e \in UpstreamErrors : srcOut' = <<EventErr(e)>>
    /\ nEvents' = nEvents + 1
    /\ srcDone' = TRUE
    /\ UNCHANGED <<manager, inWatermark, mgrGhosts, hasSaveFn, barriers, bcast, aggPc,
                   aggPending, inLog, outLog, dsEnded, delivered, taskPc,
                   persisted, signalled>>

\* what the stream yields for the error e met while it handled its next input
ErrEntry(e) ==
    [kind |-> "Err", current_watermark |-> None, barrier |-> 0,
     cause |-> Len(inLog) + 1, idx |-> 1, error |-> agg_error(e)]

\* aggregate.rs:303: input.next() is Some(Err(e)); transpose()? yields Err(e),
\* which DataStream::poll_next hands to the consumer (stream.rs:141)
AggRecvErr ==
    /\ ~dsEnded
    /\ aggPc = "loop"
    /\ agg_ready(aggPending)
    /\ srcOut # <<>>
    /\ srcOut[1].kind = "Err"
    /\ outLog' = Append(outLog, ErrEntry(srcOut[1].error))
    /\ inLog' = Append(inLog, [kind |-> "Err", n |-> 0, current_watermark |-> None,
                               error |-> srcOut[1].error, open |-> DOMAIN manager.windows])
    /\ aggPc' = agg_after_error
    /\ srcOut' = <<>>
    /\ UNCHANGED <<manager, inWatermark, mgrGhosts, hasSaveFn, barriers, bcast, srcDone,
                   nEvents, aggPending, dsEnded, delivered, taskPc, persisted, signalled>>

\* aggregate.rs:150-157 and 306: expr.eval fails for a group of the batch, so
\* manager.aggregate(..)? yields the Err before any dataset of the batch; the
\* failed call leaves the manager as it was or with rows of the batch taken
AggRecvDataSetErr ==
    /\ ~dsEnded
    /\ aggPc = "loop"
    /\ agg_ready(aggPending)
    /\ srcOut # <<>>
    /\ srcOut[1].kind = "DataSet"
    /\ srcOut[1].dataset # <<>>
    /\ manager' \in
          {manager,
           [manager EXCEPT !.windows =
               accumulate(manager, manager.windows,
                          group_by_window(srcOut[1].dataset, manager.window))]}
    /\ outLog' = Append(outLog, ErrEntry(EvalError))
    /\ inLog' = Append(inLog, [kind |-> "DataSet", n |-> 0,
                               current_watermark |-> srcOut[1].current_watermark,
                               error |-> EvalError,
                               would |-> Len(aggregate(manager, srcOut[1].dataset,
                                               srcOut[1].current_watermark).datasets)])
    /\ aggPc' = agg_after_error
    /\ srcOut' = <<>>
    /\ UNCHANGED <<inWatermark, mgrGhosts, hasSaveFn, barriers, bcast, srcDone,
                   nEvents, aggPending, dsEnded, delivered, taskPc, persisted, signalled>>

\* a stream in which the upstream or an expression can fail
NextStreamErr ==
    \/ Tick
    \/ SourceData
    \/ SourceErr
    \/ SourceBarrier
    \/ SourceEnd
    \/ AggRecvDataSet
    \/ AggRecvDataSetErr
    \/ AggRecvErr
    \/ AggRecvBarrier
    \/ AggYield
    \/ AggEnd
    \/ PollEnd
    \/ SaveTaskCall
    \/ SaveTaskSerializeFail

SpecStreamErr == InitStream /\ [][NextStreamErr]_vars

----------------------------------------------------------------------------
(* A barrier that reaches the operator more than once *)

\* an upstream that merges two branches hands on a barrier once per branch:
\* a barrier the source has forwarded arrives again
SourceBarrierRepeat ==
    /\ ~srcDone
    /\ srcOut = <<>>
    /\ nEvents < MaxEvents
    /\ \E b \in 1..Len(barriers) :
         /\ barriers[b].pending_sources = 0
         /\ \A j \in 1..Len(bcast) : bcast[j] # b
         /\ srcOut' = <<EventCreateCheckPoint(b)>>
    /\ nEvents' = nEvents + 1
    /\ UNCHANGED <<manager, inWatermark, mgrGhosts, hasSaveFn, barriers, bcast, srcDone,
                   aggPc, aggPending, inLog, outLog, dsEnded, delivered, taskPc,
                   persisted, signalled>>

NextStreamRepeat ==
    \/ Tick
    \/ SourceData
    \/ SourceBarrier
    \/ SourceBarrierRepeat
    \/ SourceEnd
    \/ AggRecvDataSet
    \/ AggRecvBarrier
    \/ AggYield
    \/ AggEnd
    \/ PollEnd
    \/ SaveTaskCall
    \/ SaveTaskSerializeFail

SpecStreamRepeat == InitStream /\ [][NextStreamRepeat]_vars

----------------------------------------------------------------------------
(* Restore: DataStream::try_new on the blob of an earlier run *)

\* an id that belongs to no node of the plan
UnknownId == 7

Truncate(data, n) == SubSeq(data, 1, Len(data) - n)

\* stream.rs:80-86: the map given by load_state_fn, empty without one
load_prev_state(data) ==
    IF data.some THEN DeserializeStates(data.val) ELSE Ok(EmptyMap, <<>>)

\* a node that leaves prev_state alone and starts empty
restore_node_never(mgr, prev_state, id) ==
    [ok |-> TRUE, manager |-> mgr, prev_state |-> prev_state]

\* a node that starts empty when its state does not load
restore_node_lenient(mgr, prev_state, id) ==
    IF id \in DOMAIN prev_state /\ load_state(mgr, prev_state[id]).ok
    THEN [ok |-> TRUE, manager |-> load_state(mgr, prev_state[id]).manager,
          prev_state |-> MapRemove(prev_state, id)]
    ELSE [ok |-> TRUE, manager |-> mgr, prev_state |-> MapRemove(prev_state, id)]

\* aggregate.rs:296-298: ctx.prev_state.remove(&id), then load_state(bytes)?
restore_node(mgr, prev_state, id) ==
    IF id \in DOMAIN prev_state
    THEN [ok         |-> load_state(mgr, prev_state[id]).ok,
          manager    |-> load_state(mgr, prev_state[id]).manager,
          prev_state |-> MapRemove(prev_state, id)]
    ELSE [ok |-> TRUE, manager |-> mgr, prev_state |-> prev_state]

\* stream.rs:80-93 with aggregate.rs:288-300: the event stream is created, or
\* construction fails; the source takes its own entry after the aggregate
try_new(data, window) ==
    LET p == load_prev_state(data)
        r == restore_node(NewManager(window), p.val, AggregateId)
    IN  IF ~p.ok THEN [ok |-> FALSE, manager |-> NewManager(window), prev_state |-> EmptyMap]
        ELSE IF ~r.ok
        THEN [ok |-> FALSE, manager |-> NewManager(window), prev_state |-> EmptyMap]
        ELSE [ok |-> TRUE, manager |-> r.manager,
              prev_state |-> MapRemove(r.prev_state, SourceId)]

InitRestore ==
    /\ \E w \in WindowSet : manager = NewManager(w)
    /\ batch \in DataSets(MaxRows)
    /\ ctx = EmptyMap
    /\ damage = "none"
    /\ ParseIdle
    /\ failures = <<>>
    /\ inWatermark = None
    /\ nRows = 0
    /\ lastStarts = {}
    /\ prevStarts = {}
    /\ closedBefore = {}
    /\ emitted = <<>>
    /\ closed = {}
    /\ blob = NoBlob
    /\ savedFrom = NewManager(CHOOSE w \in WindowSet : TRUE)
    /\ phase = "running"
    /\ StreamIdle

\* an earlier run has taken the rows and checkpointed the nodes ids; the blob
\* reaches load_state_fn whole, or cut short, or with the aggregate's bytes cut
\* short
EarlierRun ==
    /\ phase = "running"
    /\ \E ids \in SUBSET {SourceId, AggregateId, UnknownId}, cut \in 0..MaxCut,
          where \in {"outer", "inner"} :
         LET m      == aggregate(manager, batch, None).manager
             bytes  == save_state(m)
             inner  == IF where = "inner" THEN Truncate(bytes, cut) ELSE bytes
             states == [id \in ids |-> IF id = AggregateId THEN inner ELSE <<0>>]
             whole  == SerializeStates(states)
         IN  /\ where = "inner" => (AggregateId \in ids /\ cut <= Len(bytes))
             /\ cut = 0 => where = "outer"
             /\ savedFrom' = m
             /\ blob' = [some |-> TRUE,
                         val  |-> IF where = "outer" THEN Truncate(whole, cut) ELSE whole]
             /\ damage' = IF cut = 0 THEN "none" ELSE where
    /\ phase' = "saved"
    /\ UNCHANGED <<manager, inWatermark, nRows, lastStarts, prevStarts, emitted,
                   closedBefore, closed, batch, ctx, failures, parseVars>>
    /\ UNCHANGED streamVars

\* no load_state_fn is configured
NoEarlierRun ==
    /\ phase = "running"
    /\ batch = <<>>
    /\ phase' = "saved"
    /\ UNCHANGED <<manager, inWatermark, nRows, lastStarts, prevStarts, emitted,
                   closedBefore, closed, blob, savedFrom, batch, ctx, damage, failures, parseVars>>
    /\ UNCHANGED streamVars

\* DataStream::try_new
TryNew ==
    /\ phase = "saved"
    /\ \E r \in {try_new(blob, manager.window)} :
         /\ manager' = r.manager
         /\ ctx' = r.prev_state
         /\ phase' = IF r.ok THEN "built" ELSE "failed"
    /\ UNCHANGED <<inWatermark, nRows, lastStarts, prevStarts, emitted, closedBefore,
                   closed, blob, savedFrom, batch, damage, failures, parseVars>>
    /\ UNCHANGED streamVars

NextRestore == EarlierRun \/ NoEarlierRun \/ TryNew

SpecRestore == InitRestore /\ [][NextRestore]_vars

----------------------------------------------------------------------------
(* Claims about the manager (checked under Spec) *)

\* the windows open when the last batch was drained: those open before the
\* call and those of the rows of the batch
OpenAtDrain == prevStarts \cup lastStarts

EmittedStart(j) == emitted[j].columns[Len(emitted[j].columns)][1].i

IsFixed1000 == manager.window.kind = "Fixed" /\ manager.window.length = 1000

\* C1: after a batch with watermark W every open window with end_time < W is
\* removed and emitted, in ascending start_time order, and no window with
\* end_time >= W is emitted or removed.
C1_WatermarkDrain ==
    inWatermark.some =>
        /\ \A s \in OpenAtDrain :
              IF s + manager.window.length < inWatermark.val
              THEN s \in starts_of(emitted) /\ s \notin DOMAIN manager.windows
              ELSE /\ s \notin starts_of(emitted)
                   /\ s \in DOMAIN manager.windows
                   /\ manager.windows[s].end_time >= inWatermark.val
        /\ starts_of(emitted) \subseteq OpenAtDrain
        /\ DOMAIN manager.windows \subseteq OpenAtDrain
        /\ Cardinality(starts_of(emitted)) = Len(emitted)
        /\ \A i, j \in 1..Len(emitted) : i < j => EmittedStart(i) < EmittedStart(j)

\* C1 witness: a call that emitted two windows and kept one whose end_time
\* equals the watermark
C1_Witness ==
    /\ inWatermark.some
    /\ Len(emitted) >= 2
    /\ \E s \in DOMAIN manager.windows : manager.windows[s].end_time = inWatermark.val

\* C2: a row that arrives after its window was closed creates no window
\* state and is not reflected in any emitted dataset.
C2_LateRowDropped ==
    \A s \in lastStarts \cap closedBefore :
        s \notin DOMAIN manager.windows /\ s \notin starts_of(emitted)

\* C3: once a window was emitted, no window with that start_time is inserted
\* into the map or emitted again.
C3_NoReopen ==
    /\ closed \cap DOMAIN manager.windows = {}
    /\ closedBefore \cap starts_of(emitted) = {}

\* the case of C4: Fixed{1000}, windows 0, 1000 and 2000 open, a batch with
\* watermark 2000
C4_Case ==
    /\ IsFixed1000
    /\ prevStarts = {0, 1000, 2000}
    /\ inWatermark = Some(2000)

\* C4 as stated: watermark 2000 releases the windows 0 and 1000 and keeps 2000.
C4_Original ==
    C4_Case => /\ starts_of(emitted) = {0, 1000}
               /\ DOMAIN manager.windows = {2000}

\* C4 amended: watermark 2000 releases only the window 0 (end_time 1000) and
\* keeps the windows 1000 (end_time 2000) and 2000 open.
C4_Amended ==
    C4_Case => /\ starts_of(emitted) = {0}
               /\ DOMAIN manager.windows = {1000, 2000}

C4_Witness == C4_Case /\ Len(emitted) = 1

\* the rows of a dataset: one tuple of cells per row
rows_of(dataset) ==
    { [c \in 1..Len(dataset.columns) |-> dataset.columns[c][r]] :
        r \in 1..Len(dataset.columns[1]) }

\* a watermark past all windows of a manager
past_all(mgr) ==
    LET ends == {mgr.windows[s].end_time : s \in DOMAIN mgr.windows}
    IN  IF ends = {} THEN Some(0)
        ELSE Some(1 + CHOOSE e \in ends : \A x \in ends : x <= e)

\* what a manager emits for an empty batch with that watermark
flush(mgr, current_watermark) ==
    LET out == aggregate(mgr, <<>>, current_watermark).datasets
    IN  [j \in 1..Len(out) |-> rows_of(out[j])]

\* C5: a manager rebuilt by load_state from the bytes of save_state emits, for
\* an empty batch with a watermark past all windows, the same windows with
\* the same rows as the uninterrupted manager.
C5_CheckpointRoundTrip ==
    phase = "restored" =>
        flush(manager, past_all(savedFrom)) = flush(savedFrom, past_all(savedFrom))

\* C5 witness: a restored manager with two windows, one of them with two groups
C5_Witness ==
    /\ phase = "restored"
    /\ Cardinality(DOMAIN savedFrom.windows) >= 2
    /\ \E s \in DOMAIN savedFrom.windows :
          Cardinality(DOMAIN savedFrom.windows[s].children) = 2
    /\ Len(flush(manager, past_all(savedFrom))) >= 2

----------------------------------------------------------------------------
(* Claims about the pipeline (checked under SpecStream, SpecStreamFair) *)

\* number of save_state_fn calls for a barrier
\* C12: a batch with watermark None emits no dataset and removes no window:
\* the windows open before the call and the windows of the rows of the batch
\* are all open after it, the latter holding the groups of the batch.
C12_NoneEmitsNothing ==
    ~inWatermark.some =>
        /\ emitted = <<>>
        /\ closed = {}
        /\ DOMAIN manager.windows = prevStarts \cup lastStarts
        /\ \A s \in lastStarts : DOMAIN manager.windows[s].children # {}

\* C12 witness: a batch with watermark None has added rows to a manager that
\* had windows open
C12_Witness ==
    /\ ~inWatermark.some
    /\ phase = "running"
    /\ prevStarts # {}
    /\ lastStarts \ prevStarts # {}
    /\ Cardinality(DOMAIN manager.windows) >= 3

\* the rows of the input that fall into the window starting at start
RowsIn(start) ==
    LET In(row) == \E w \in windows_of(manager.window, row.t) : w[1] = start
    IN  SelectSeq(batch, In)

KeysIn(start) == {RowsIn(start)[j].k : j \in 1..Len(RowsIn(start))}

\* one row (key, sum of v, start) per key of the window
ExpectedRows(start) ==
    { << ScalarString(k),
         ScalarInt64(SeqSum(LET Of(row) == row.k = k
                                rows == SelectSeq(RowsIn(start), Of)
                            IN  [j \in 1..Len(rows) |-> rows[j].v])),
         ScalarTimestamp(start) >> : k \in KeysIn(start) }

\* C14: the dataset emitted for a completed window has one row per distinct
\* GroupedKey of the rows of that window, one column per aggregate expression
\* followed by a trailing timestamp column, and the trailing column holds the
\* window's start_time in every row; the aggregate columns hold the key and
\* the sum of the group.
C14_EmittedDataset ==
    phase = "flushed" =>
        /\ Len(emitted) = Cardinality(batch_starts(manager.window, batch))
        /\ starts_of(emitted) = batch_starts(manager.window, batch)
        /\ \A j \in 1..Len(emitted) :
              /\ Len(emitted[j].columns) = Len(manager.aggr_exprs) + 1
              /\ \A c \in 1..Len(emitted[j].columns) :
                    Len(emitted[j].columns[c]) = Cardinality(KeysIn(EmittedStart(j)))
              /\ \A r \in 1..Len(emitted[j].columns[1]) :
                    emitted[j].columns[Len(emitted[j].columns)][r]
                        = ScalarTimestamp(EmittedStart(j))
              /\ rows_of(emitted[j]) = ExpectedRows(EmittedStart(j))

\* C14 witness: a window holding two rows of one key and a row of another key
\* has been emitted as two rows
C14_Witness ==
    /\ phase = "flushed"
    /\ \E j \in 1..Len(emitted) :
          /\ Len(emitted[j].columns[1]) = 2
          /\ Len(RowsIn(EmittedStart(j))) = 3
          /\ <<ScalarString("a"), ScalarInt64(3), ScalarTimestamp(0)>> \in rows_of(emitted[j])

\* the rows fed so far that fall into the window starting at start, with key k
FedRows(start, k) ==
    LET In(row) == row.k = k /\ \E w \in windows_of(manager.window, row.t) : w[1] = start
    IN  SelectSeq(SubSeq(batch, 1, nRows), In)

\* C29: rows of one window and one GroupedKey that come in different batches
\* update one AggregateState: the window holds one state per key seen, with
\* one value per aggregate expression, and after every batch the values are
\* the results over all rows of the group taken so far.
C29_GroupStateAcrossBatches ==
    phase = "feeding" =>
        /\ DOMAIN manager.windows = batch_starts(manager.window, SubSeq(batch, 1, nRows))
        /\ \A start \in DOMAIN manager.windows :
              /\ DOMAIN manager.windows[start].children =
                    {<<ScalarString(k)>> : k \in {x \in {"a", "b"} : FedRows(start, x) # <<>>}}
              /\ \A key \in DOMAIN manager.windows[start].children :
                    /\ Len(manager.windows[start].children[key].values)
                          = Len(manager.aggr_exprs)
                    /\ Len(manager.windows[start].children[key].aggr_exprs)
                          = Len(manager.aggr_exprs)
                    /\ manager.windows[start].children[key].values =
                          << key[1],
                             ScalarInt64(SeqSum([j \in 1..Len(FedRows(start, key[1].s)) |->
                                                   FedRows(start, key[1].s)[j].v])) >>
                    /\ manager.windows[start].children[key].aggr_exprs[2].acc =
                          manager.windows[start].children[key].values[2]

\* C29 witness: two rows of one key and one window were taken in two batches
C29_Witness ==
    /\ phase = "feeding"
    /\ nRows = 2
    /\ emitted = <<>>
    /\ batch[1].k = batch[2].k
    /\ batch[1].t = batch[2].t
    /\ prevStarts = DOMAIN manager.windows
    /\ \E start \in DOMAIN manager.windows :
          \E key \in DOMAIN manager.windows[start].children :
              manager.windows[start].children[key].values[2]
                  = ScalarInt64(batch[1].v + batch[2].v)

calls(b) == Cardinality({i \in 1..Len(persisted) : persisted[i].barrier = b})

\* C6: the states handed to save_state_fn hold exactly one entry for every
\* stateful node, and save_state_fn is never called for a barrier to which
\* some node has not contributed.
C6_BarrierComplete ==
    \A i \in 1..Len(persisted) :
        /\ persisted[i].ids = StatefulNodes
        /\ persisted[i].data[1] = Cardinality(StatefulNodes)
        /\ DeserializeStates(persisted[i].data).ok
        /\ DOMAIN DeserializeStates(persisted[i].data).val = StatefulNodes
        /\ wait_returns(barriers[persisted[i].barrier])

\* C6 witness: a checkpoint was persisted with the aggregate's windows in it
C6_Witness ==
    \E i \in 1..Len(persisted) :
        /\ DeserializeStates(persisted[i].data).ok
        /\ load_state(NewManager(StreamWindow),
                      DeserializeStates(persisted[i].data).val[AggregateId]).ok
        /\ DOMAIN load_state(NewManager(StreamWindow),
                 DeserializeStates(persisted[i].data).val[AggregateId]).manager.windows # {}

\* C7: the aggregate stream yields its events in the order of the input
\* events that caused them (and, for one input event, in the order
\* aggregate() returned them); when a barrier is forwarded every dataset of
\* every earlier input event has been yielded.
C7_Fifo ==
    /\ \A p, q \in 1..Len(outLog) :
          p < q => \/ outLog[p].cause < outLog[q].cause
                   \/ /\ outLog[p].cause = outLog[q].cause
                      /\ outLog[p].idx < outLog[q].idx
    /\ \A p \in 1..Len(outLog) :
          /\ outLog[p].cause \in 1..Len(inLog)
          /\ outLog[p].kind = inLog[outLog[p].cause].kind
          /\ outLog[p].kind = "CreateCheckPoint" =>
                \A c \in 1..(outLog[p].cause - 1) :
                    Cardinality({q \in 1..(p - 1) : outLog[q].cause = c}) = inLog[c].n

\* C7 witness: two datasets of one input event, then a barrier, then a dataset
\* of a later input event
C7_Witness ==
    \E p \in 1..Len(outLog) :
        /\ p >= 3 /\ p < Len(outLog)
        /\ outLog[p].kind = "CreateCheckPoint"
        /\ outLog[p - 1].kind = "DataSet" /\ outLog[p - 2].kind = "DataSet"
        /\ outLog[p - 1].cause = outLog[p - 2].cause
        /\ outLog[p + 1].kind = "DataSet"

IsExitEntry(entry) == entry.kind = "CreateCheckPoint" /\ barriers[entry.barrier].is_exit

\* C8: after forwarding an exit barrier the aggregate stream yields nothing
\* more and has ended; it ends for no other reason than an exit barrier or the
\* end of its input.
C8_ExitBreaks ==
    /\ \A p \in 1..Len(outLog) :
          IsExitEntry(outLog[p]) => p = Len(outLog) /\ aggPc = "done" /\ aggPending = <<>>
    /\ aggPc = "done" =>
          \/ outLog # <<>> /\ IsExitEntry(outLog[Len(outLog)])
          \/ srcDone /\ srcOut = <<>>

\* C8 witness: the stream has ended on an exit barrier while the upstream
\* holds a further event, and has gone on after a periodic barrier
C8_Witness ==
    /\ aggPc = "done"
    /\ outLog # <<>> /\ IsExitEntry(outLog[Len(outLog)])
    /\ srcOut # <<>>
    /\ \E p \in 1..Len(outLog) : outLog[p].kind = "CreateCheckPoint" /\ ~IsExitEntry(outLog[p])

\* no save_state task is running and the DataStream has ended
Quiescent ==
    /\ dsEnded
    /\ \A b \in 1..Len(taskPc) : taskPc[b] \in {"none", "done", "failed"}

\* C9: an exit barrier to which every node has contributed is serialised and
\* handed to save_state_fn.
C9_ExitBarrierPersisted ==
    \A b \in 1..Len(barriers) :
        (hasSaveFn /\ barriers[b].is_exit /\ wait_returns(barriers[b]) /\ Quiescent)
            => calls(b) >= 1

PeriodicIds == {b \in 1..Len(barriers) : ~barriers[b].is_exit}

\* the safety half of C10: at most one call per periodic barrier, made only
\* after barrier.wait() has returned, and made by a task that got that far
C10_Safety ==
    /\ \A i \in 1..Len(persisted) :
          /\ persisted[i].barrier \in PeriodicIds
          /\ wait_returns(barriers[persisted[i].barrier])
    /\ \A b \in PeriodicIds :
          /\ calls(b) <= 1
          /\ calls(b) = 1 <=> taskPc[b] = "done"

\* C10 as stated: a periodic barrier that every node has forwarded gets its one
\* call of save_state_fn (here: has got it when its task has returned).
C10_Original ==
    /\ C10_Safety
    /\ \A b \in PeriodicIds :
          (wait_returns(barriers[b]) /\ taskPc[b] # "wait")
              => calls(b) = 1

\* C10 amended: at most one call per periodic barrier, only after
\* barrier.wait() has returned; once every node has forwarded the barrier the
\* task eventually either calls save_state_fn once or, when serialising the
\* states fails, returns without calling it.
C10_Amended ==
    /\ []C10_Safety
    /\ \A b \in BarrierIds :
          (b \in PeriodicIds /\ wait_returns(barriers[b]))
              ~> (b \in PeriodicIds /\ \/ (taskPc[b] = "done" /\ calls(b) = 1)
                                       \/ (taskPc[b] = "failed" /\ calls(b) = 0))

C10_Witness ==
    \E b \in PeriodicIds : taskPc[b] = "done" /\ calls(b) = 1 /\ wait_returns(barriers[b])

\* the source has forwarded the exit barrier
ExitForwarded ==
    \E b \in 1..Len(barriers) : barriers[b].is_exit /\ barriers[b].pending_sources = 0

NumDataSets == Cardinality({p \in 1..Len(outLog) : outLog[p].kind = "DataSet"})

\* at end-of-stream after an exit barrier the consumer has every dataset of
\* the events ahead of the barrier
C11_Delivered ==
    (dsEnded /\ outLog # <<>> /\ IsExitEntry(outLog[Len(outLog)])) =>
        /\ delivered = NumDataSets
        /\ \A c \in 1..(outLog[Len(outLog)].cause - 1) :
              Cardinality({q \in 1..Len(outLog) : outLog[q].cause = c}) = inLog[c].n

\* C11: once the shutdown signal has fired the DataStream eventually yields
\* end-of-stream; an exit barrier the source has forwarded is forwarded by the
\* aggregate operator, which then exits; every dataset of the events ahead of
\* the exit barrier has been delivered before the end-of-stream.
C11_GracefulShutdown ==
    /\ signalled ~> dsEnded
    /\ ExitForwarded ~> (dsEnded /\ aggPc = "done" /\ outLog # <<>>
                           /\ IsExitEntry(outLog[Len(outLog)]))
    /\ []C11_Delivered

\* C11 witness: the stream has ended on an exit barrier after delivering
\* datasets of earlier events, the source having data left unsent
C11_Witness ==
    /\ dsEnded /\ outLog # <<>> /\ IsExitEntry(outLog[Len(outLog)])
    /\ delivered >= 2
    /\ nEvents < MaxEvents

\* C13: every dataset the aggregate stream yields carries the
\* current_watermark of the input event that caused it, and the watermarks of
\* the yielded datasets are non-decreasing.
C13_WatermarkUnchanged ==
    /\ \A p \in 1..Len(outLog) :
          outLog[p].kind = "DataSet" =>
              outLog[p].current_watermark = inLog[outLog[p].cause].current_watermark
    /\ \A p, q \in 1..Len(outLog) :
          (p < q /\ outLog[p].kind = "DataSet" /\ outLog[q].kind = "DataSet") =>
              watermark_follows(outLog[p].current_watermark, outLog[q].current_watermark)

\* C13 witness: datasets of two input events have been yielded
C13_Witness ==
    \E p, q \in 1..Len(outLog) :
        /\ outLog[p].kind = "DataSet" /\ outLog[q].kind = "DataSet"
        /\ outLog[p].cause < outLog[q].cause
        /\ outLog[q].current_watermark.some


----------------------------------------------------------------------------
(* Claims about construction from a checkpoint (checked under SpecRestore) *)

\* the map DataStream::try_new was given
GivenStates == load_prev_state(blob).val

\* C15: at construction the operator with id i loads a previous state exactly
\* when prev_state has an entry for i, and removes the entry; without an entry
\* it starts with an empty window map; an entry under an id of no operator is
\* left alone and does not make construction fail.
C15_RestoreById ==
    /\ phase = "built" =>
         /\ AggregateId \notin DOMAIN ctx
         /\ AggregateId \in DOMAIN GivenStates =>
               /\ manager.windows = savedFrom.windows
               /\ manager = load_state(NewManager(manager.window),
                                       GivenStates[AggregateId]).manager
         /\ AggregateId \notin DOMAIN GivenStates => manager.windows = EmptyMap
         /\ DOMAIN ctx = DOMAIN GivenStates \ {AggregateId, SourceId}
    /\ ~(phase = "failed" /\ damage = "none")

\* both cases at once: a restored operator next to an entry nobody owns
C15_Witness ==
    /\ phase = "built"
    /\ DOMAIN GivenStates = {AggregateId, UnknownId}
    /\ manager.windows # EmptyMap
    /\ DOMAIN ctx = {UnknownId}

\* C16: restore is all or nothing. When the blob, or the bytes of a node in it,
\* do not deserialise, try_new returns the error and no event stream exists;
\* a stream that was built holds the whole saved state or none.
C16_AllOrNothing ==
    /\ (phase \in {"built", "failed"} /\ damage # "none") =>
         /\ phase = "failed"
         /\ manager.windows = EmptyMap
    /\ phase = "built" =>
         \/ manager.windows = savedFrom.windows
         \/ AggregateId \notin DOMAIN GivenStates /\ manager.windows = EmptyMap

\* the aggregate's bytes are cut short inside a blob that itself decodes
C16_Witness ==
    /\ phase = "failed"
    /\ damage = "inner"
    /\ load_prev_state(blob).ok
    /\ savedFrom.windows # EmptyMap


----------------------------------------------------------------------------
(* Claims about failed checkpoints (checked under SpecStreamTicks) *)

\* C17: a failed checkpoint is not fatal. When serialising the states of a
\* barrier fails, save_state_fn is not called for it; when save_state_fn
\* returns an error the task ends as after a success; either way the event
\* stream yields what it has pending, and a tick still creates a barrier.
C17_CheckpointFailureNonFatal ==
    /\ \A i \in 1..Len(failures) :
          /\ failures[i].kind = "serialize" => calls(failures[i].barrier) = 0
          /\ failures[i].kind = "save_state_fn" =>
                calls(failures[i].barrier) = 1 /\ taskPc[failures[i].barrier] = "done"
    /\ (failures # <<>> /\ ~dsEnded) =>
          /\ tick_creates
          /\ NumPeriodic < MaxTicks => ENABLED TickAgain
          /\ (aggPc = "loop" /\ aggPending # <<>>) => ENABLED AggYield

\* serialising the first barrier's states has failed; the aggregate holds a
\* dataset to deliver and the timer can tick again
C17_Witness ==
    /\ Len(failures) = 1
    /\ failures[1].kind = "serialize"
    /\ taskPc = <<"failed">>
    /\ ~dsEnded
    /\ NumPeriodic < MaxTicks
    /\ \E i \in 1..Len(aggPending) : aggPending[i].event.kind = "DataSet"


----------------------------------------------------------------------------
(* Claims about errors (checked under SpecStreamErr) *)

\* the stream has yielded nothing after its event i, and has ended
EndsWith(i) ==
    /\ i = Len(outLog)
    /\ aggPc = "done"
    /\ aggPending = <<>>
    /\ \A j \in 1..Len(outLog) : j # i => outLog[j].cause # outLog[i].cause

\* C18: when evaluating an expression fails while a batch is processed, the
\* operator yields one Err as its next event and ends: nothing follows it and
\* no dataset comes from that batch, whatever windows its watermark completes.
C18_EvalErrorEnds ==
    \A i \in 1..Len(outLog) :
        (outLog[i].kind = "Err" /\ inLog[outLog[i].cause].kind = "DataSet") =>
            /\ outLog[i].error = EvalError
            /\ inLog[outLog[i].cause].n = 0
            /\ EndsWith(i)

\* the failing batch came with a watermark that completes windows, other events
\* were yielded before, and the DataStream has ended
C18_Witness ==
    /\ Len(outLog) > 1
    /\ outLog[Len(outLog)].kind = "Err"
    /\ inLog[outLog[Len(outLog)].cause].kind = "DataSet"
    /\ inLog[outLog[Len(outLog)].cause].would > 0
    /\ dsEnded

\* C19: when the upstream yields an error, the operator yields the same error
\* as its next event and ends; the windows open then stay in the manager and
\* are never emitted.
C19_UpstreamErrorEnds ==
    \A i \in 1..Len(outLog) :
        (outLog[i].kind = "Err" /\ inLog[outLog[i].cause].kind = "Err") =>
            /\ outLog[i].error = inLog[outLog[i].cause].error
            /\ EndsWith(i)
            /\ DOMAIN manager.windows = inLog[outLog[i].cause].open

\* the upstream failed while a window was open, and the DataStream has ended
C19_Witness ==
    /\ outLog # <<>>
    /\ outLog[Len(outLog)].kind = "Err"
    /\ inLog[outLog[Len(outLog)].cause].kind = "Err"
    /\ inLog[outLog[Len(outLog)].cause].open # {}
    /\ bcast # <<>>
    /\ dsEnded


----------------------------------------------------------------------------
(* Claims about window assignment (checked under SpecRows) *)

----------------------------------------------------------------------------
(* Claims about barriers at the operator (checked under SpecStreamRepeat) *)

\* the operator takes a CreateCheckPoint event from its input
TakesBarrier ==
    /\ aggPc = "loop"
    /\ srcOut # <<>>
    /\ srcOut[1].kind = "CreateCheckPoint"
    /\ srcOut' = <<>>

\* the yielded events that carry barrier b
Forwards(b) ==
    {p \in 1..Len(outLog) : outLog[p].kind = "CreateCheckPoint" /\ outLog[p].barrier = b}

\* C28: on CreateCheckPoint(barrier) the operator records its serialised state
\* under its own id only when the barrier holds none for that id (an entry is
\* never overwritten), before it forwards, and then forwards exactly one
\* CreateCheckPoint event with the same barrier.
C28_BarrierAtOperator ==
    /\ [][TakesBarrier =>
            /\ is_saved(barriers[srcOut[1].barrier], AggregateId) => barriers' = barriers
            /\ ~is_saved(barriers[srcOut[1].barrier], AggregateId) =>
                  /\ barriers'[srcOut[1].barrier].states =
                        MapPut(barriers[srcOut[1].barrier].states, AggregateId,
                               save_state(manager))
                  /\ \A b \in 1..Len(barriers) :
                        b # srcOut[1].barrier => barriers'[b] = barriers[b]
            /\ is_saved(barriers'[srcOut[1].barrier], AggregateId)
            /\ Len(aggPending') = 1
            /\ aggPending'[1].event = srcOut[1]
            /\ outLog' = outLog]_vars
    /\ [](Cardinality({c \in 1..Len(inLog) : inLog[c].kind = "CreateCheckPoint"})
            >= Cardinality({p \in 1..Len(outLog) : outLog[p].kind = "CreateCheckPoint"}))

\* a barrier was forwarded twice with a batch taken in between: the state it
\* holds for the operator is the first one, not the manager's current one
C28_Witness ==
    \E b \in 1..Len(barriers) :
        /\ Cardinality(Forwards(b)) = 2
        /\ is_saved(barriers[b], AggregateId)
        /\ barriers[b].states[AggregateId] # save_state(manager)
        /\ barriers[b].states[AggregateId] = save_state(NewManager(manager.window))


----------------------------------------------------------------------------
(* Claims about materialised columns (checked under SpecForeign) *)

\* the cell a stored scalar gives in a column of the declared type
CellOf(data_type, scalar) == IF scalar.tag = data_type THEN scalar ELSE ScalarNull

\* C30: when a column is materialised, a group whose stored scalar is not of
\* the variant of the field's data type, a Null scalar included, gives a null
\* cell; the row is kept and the dataset is emitted.
C30_MismatchIsNull ==
    phase = "flushed" =>
        /\ Len(emitted) = 1
        /\ \A c \in 1..Len(emitted[1].columns) :
              Len(emitted[1].columns[c]) = Cardinality(DOMAIN savedFrom.windows[0].children)
        /\ rows_of(emitted[1]) =
              { << CellOf("String", savedFrom.windows[0].children[key].values[1]),
                   CellOf("Int64", savedFrom.windows[0].children[key].values[2]),
                   ScalarTimestamp(0) >> : key \in DOMAIN savedFrom.windows[0].children }

\* C30 witness: a group with a Null key value and a Timestamp where the sum is
\* declared, next to a group whose scalars match, was emitted as two rows
C30_Witness ==
    /\ phase = "flushed"
    /\ Len(emitted) = 1
    /\ Len(emitted[1].columns[1]) = 2
    /\ \E key \in DOMAIN savedFrom.windows[0].children :
          /\ savedFrom.windows[0].children[key].values[1] = ScalarNull
          /\ savedFrom.windows[0].children[key].values[2] = ScalarTimestamp(5)
    /\ << ScalarNull, ScalarNull, ScalarTimestamp(0) >> \in rows_of(emitted[1])
    /\ << ScalarString("a"), ScalarInt64(3), ScalarTimestamp(0) >> \in rows_of(emitted[1])


----------------------------------------------------------------------------
(* sql/parser.rs: the parsers, over a text as a sequence of characters *)

Digit == {"0", "1", "2", "3", "4", "5", "6", "7", "8", "9"}

LowerCase == <<"a", "b", "c", "d", "e", "f", "g", "h", "i", "j", "k", "l", "m",
               "n", "o", "p", "q", "r", "s", "t", "u", "v", "w", "x", "y", "z">>

UpperCase == <<"A", "B", "C", "D", "E", "F", "G", "H", "I", "J", "K", "L", "M",
               "N", "O", "P", "Q", "R", "S", "T", "U", "V", "W", "X", "Y", "Z">>

Letter == {LowerCase[i] : i \in 1..26} \cup {UpperCase[i] : i \in 1..26}

to_lowercase(c) ==
    IF \E i \in 1..26 : UpperCase[i] = c
    THEN LowerCase[CHOOSE i \in 1..26 : UpperCase[i] = c]
    ELSE c

\* the number of leading characters of input that are in set
RECURSIVE span(_, _)
span(set, input) ==
    IF input # <<>> /\ Head(input) \in set THEN 1 + span(set, Tail(input)) ELSE 0

\* the number of leading characters of input that are not in set
RECURSIVE span_not(_, _)
span_not(set, input) ==
    IF input # <<>> /\ Head(input) \notin set THEN 1 + span_not(set, Tail(input)) ELSE 0

take(n, input) == Ok(SubSeq(input, 1, n), SubSeq(input, n + 1, Len(input)))

\* digit1, alpha1: one or more characters of set
many1(set, input) == IF span(set, input) = 0 THEN Fail ELSE take(span(set, input), input)

tag(t, input) ==
    IF Len(input) >= Len(t) /\ SubSeq(input, 1, Len(t)) = t THEN take(Len(t), input) ELSE Fail

tag_no_case(t, input) ==
    IF /\ Len(input) >= Len(t)
       /\ \A i \in 1..Len(t) : to_lowercase(input[i]) = to_lowercase(t[i])
    THEN take(Len(t), input)
    ELSE Fail

\* alt((p, q)): the first parser that succeeds
alt(p, q) == IF p.ok THEN p ELSE q

\* value(v, p)
value(v, p) == IF p.ok THEN Ok(v, p.rest) ELSE Fail

\* parser.rs:17-19
sp(input) == take(span({" ", "\t", "\n", "\r"}, input), input)

\* parser.rs:21-29
ident(input) ==
    IF input # <<>> /\ Head(input) \in Letter \cup {"_", "@"}
    THEN take(1 + span(Letter \cup Digit \cup {"_"}, Tail(input)), input)
    ELSE Fail

\* parser.rs:31-39
boolean(input) ==
    alt(value(TRUE, tag_no_case(<<"t", "r", "u", "e">>, input)),
        value(FALSE, tag_no_case(<<"f", "a", "l", "s", "e">>, input)))

DigitValue(c) == CHOOSE n \in 0..9 : <<"0", "1", "2", "3", "4", "5", "6", "7", "8", "9">>[n + 1] = c

\* i64::from_str on a run of digits
RECURSIVE from_str(_)
from_str(digits) ==
    IF digits = <<>> THEN 0
    ELSE 10 * from_str(SubSeq(digits, 1, Len(digits) - 1)) + DigitValue(digits[Len(digits)])

signed(sign, r) == IF r.ok THEN Ok(sign * from_str(r.val), r.rest) ELSE Fail

\* parser.rs:41-48
integer(input) ==
    IF input # <<>> /\ Head(input) = "-"
    THEN signed(-1, many1(Digit, Tail(input)))
    ELSE signed(1, many1(Digit, input))

\* the length of digits '.' digits? or '.' digits at the front of input, 0 if neither
float_body(input) ==
    IF span(Digit, input) > 0
    THEN IF Len(input) > span(Digit, input) /\ input[span(Digit, input) + 1] = "."
         THEN span(Digit, input) + 1
              + span(Digit, SubSeq(input, span(Digit, input) + 2, Len(input)))
         ELSE 0
    ELSE IF input # <<>> /\ Head(input) = "." /\ span(Digit, Tail(input)) > 0
         THEN 1 + span(Digit, Tail(input))
         ELSE 0

\* parser.rs:50-68, for texts without an exponent; the value is the text recognised
float(input) ==
    IF input # <<>> /\ Head(input) = "-"
    THEN IF float_body(Tail(input)) = 0 THEN Fail ELSE take(1 + float_body(Tail(input)), input)
    ELSE IF float_body(input) = 0 THEN Fail ELSE take(float_body(input), input)

unquoted(n, input) ==
    IF Len(input) >= n + 2 /\ input[n + 2] = Head(input)
    THEN Ok(SubSeq(input, 2, n + 1), SubSeq(input, n + 3, Len(input)))
    ELSE Fail

\* parser.rs:70-115, for texts without a backslash or a doubled quote
string(input) ==
    IF input # <<>> /\ Head(input) \in {"'", "\""}
    THEN unquoted(span_not({Head(input), "\\"}, Tail(input)), input)
    ELSE Fail

\* Literal::Boolean, Float, Int, String
Literal(kind, v) == [kind |-> kind, v |-> v]

ExprLiteral(l) == [expr |-> "Literal", literal |-> l]

Column(qualifier, n) == [expr |-> "Column", qualifier |-> qualifier, name |-> n]

Wildcard(qualifier) == [expr |-> "Wildcard", qualifier |-> qualifier]

Unary(op, e) == [expr |-> "Unary", op |-> op, operand |-> e]

Binary(op, lhs, rhs) == [expr |-> "Binary", op |-> op, lhs |-> lhs, rhs |-> rhs]

Call(namespace, n, args) == [expr |-> "Call", namespace |-> namespace, name |-> n, args |-> args]

as_literal(kind, r) == IF r.ok THEN Ok(Literal(kind, r.val), r.rest) ELSE Fail

\* parser.rs:117-128
literal(input) ==
    alt(as_literal("Boolean", boolean(input)),
        alt(as_literal("Float", float(input)),
            alt(as_literal("Int", integer(input)),
                as_literal("String", string(input)))))

\* parser.rs:130-132
name(input) == alt(string(input), ident(input))

\* name '.' name, else the name alone
qualified(r, n) ==
    IF n.ok THEN Ok(Column(Some(r.val), n.val), n.rest) ELSE Ok(Column(None, r.val), r.rest)

column_of(r, input) ==
    IF r.ok
    THEN IF r.rest # <<>> /\ Head(r.rest) = "."
         THEN qualified(r, name(Tail(r.rest)))
         ELSE Ok(Column(None, r.val), r.rest)
    ELSE value(Wildcard(None), tag(<<"*">>, input))

\* parser.rs:134-159; its third alternative needs a name, which the second takes
column(input) == column_of(name(input), input)

\* steps of a tuple((...)): each keeps the values read so far
then_sp(r) == IF r.ok THEN Ok(r.val, sp(r.rest).rest) ELSE Fail

\* a tag_no_case, or a char that has no case
then_tag(r, t) ==
    IF r.ok /\ tag_no_case(t, r.rest).ok THEN Ok(r.val, tag_no_case(t, r.rest).rest) ELSE Fail

push(r, p) == IF p.ok THEN Ok(Append(r.val, p.val), p.rest) ELSE Fail

RECURSIVE expr(_)
RECURSIVE expr_b(_)
RECURSIVE expr_c(_)
RECURSIVE expr_d(_)
RECURSIVE expr_e(_)
RECURSIVE arguments_more(_, _)
RECURSIVE many0_binary(_, _)

then_expr(r) == IF r.ok THEN push(r, expr(r.rest)) ELSE Fail

\* alt((ident '.' ident, ident)) of expr_call
func_name_of(r, n) ==
    IF n.ok THEN Ok(<<Some(r.val), n.val>>, n.rest) ELSE Ok(<<None, r.val>>, r.rest)

func_name(r) ==
    IF r.ok
    THEN IF r.rest # <<>> /\ Head(r.rest) = "."
         THEN func_name_of(r, ident(Tail(r.rest)))
         ELSE Ok(<<None, r.val>>, r.rest)
    ELSE Fail

\* delimited(sp, expr, sp) after the values read so far
then_argument(r) == then_sp(then_expr(then_sp(r)))

\* separated_list0(char(','), delimited(sp, expr, sp)) after a first argument
arguments_next(r, e) == IF e.ok THEN arguments_more(e, e.rest) ELSE r

arguments_more(r, input) ==
    IF input # <<>> /\ Head(input) = ","
    THEN arguments_next(r, then_argument(Ok(r.val, Tail(input))))
    ELSE r

arguments_first(e, input) == IF e.ok THEN arguments_more(e, e.rest) ELSE Ok(<<>>, input)

arguments(input) == arguments_first(then_argument(Ok(<<>>, input)), input)

then_arguments(r) == IF r.ok THEN push(r, arguments(r.rest)) ELSE Fail

as_call(r) == IF r.ok THEN Ok(Call(r.val[1], r.val[2], r.val[3]), r.rest) ELSE Fail

\* parser.rs:165-184
expr_call(input) ==
    as_call(then_tag(then_sp(then_arguments(then_sp(then_tag(then_sp(
        func_name(ident(input))), <<"(">>)))), <<")">>))

as_unary(op, e) == IF e.ok THEN Ok(Unary(op, e.val), e.rest) ELSE Fail

unary_of(op) == IF op.ok THEN as_unary(op.val, expr(sp(op.rest).rest)) ELSE Fail

\* parser.rs:201-210: the operand is separated_pair's second parser, expr
expr_unary(input) ==
    unary_of(alt(value("Not", tag_no_case(<<"n", "o", "t">>, input)),
                 value("Neg", tag(<<"-">>, input))))

as_only(r) == IF r.ok THEN Ok(r.val[1], r.rest) ELSE Fail

\* parser.rs:187-190
parens(input) ==
    as_only(then_tag(then_sp(then_expr(then_sp(then_tag(Ok(<<>>, input), <<"(">>)))), <<")">>))

as_expr_literal(r) == IF r.ok THEN Ok(ExprLiteral(r.val), r.rest) ELSE Fail

\* parser.rs:186-199
expr_primitive(input) ==
    then_sp(alt(parens(sp(input).rest),
            alt(expr_unary(sp(input).rest),
            alt(expr_call(sp(input).rest),
            alt(as_expr_literal(literal(sp(input).rest)),
                column(sp(input).rest))))))

\* the alternatives of each level's operator, in the order alt tries them
\* (parser.rs:217, 227, 238-246, 256-259, 269-272)
BinaryOperators ==
    << << <<"Or", <<"o", "r">> >> >>,
       << <<"Or", <<"a", "n", "d">> >> >>,
       << <<"Eq", <<"=">> >>,
          <<"NotEq", <<"!", "=">> >>,
          <<"NotEq", <<"<", ">">> >>,
          <<"Lt", <<"<">> >>,
          <<"LtEq", <<"<">> >>,
          <<"Gt", <<">">> >>,
          <<"GtEq", <<">", "=">> >> >>,
       << <<"Plus", <<"+">> >>, <<"Minus", <<"-">> >> >>,
       << <<"Multiply", <<"*">> >>, <<"Divide", <<"/">> >> >> >>

\* alt((value(op, tag(token)), ...)) over the alternatives alts
RECURSIVE binary_operator(_, _)
binary_operator(alts, input) ==
    IF alts = <<>> THEN Fail
    ELSE alt(value(Head(alts)[1], tag_no_case(Head(alts)[2], input)),
             binary_operator(Tail(alts), input))

\* the parser of a level's operands
operand(level, input) ==
    CASE level = 1 -> expr_b(input)
      [] level = 2 -> expr_c(input)
      [] level = 3 -> expr_d(input)
      [] level = 4 -> expr_e(input)
      [] level = 5 -> expr_primitive(input)

\* many0(tuple((operator, operand))): stops, keeping the input, where the pair fails
many0_pair(level, op, rhs, input) ==
    IF rhs.ok THEN Prepend(<<op, rhs.val>>, many0_binary(level, rhs.rest)) ELSE Ok(<<>>, input)

many0_operator(level, op, input) ==
    IF op.ok THEN many0_pair(level, op.val, operand(level, op.rest), input) ELSE Ok(<<>>, input)

many0_binary(level, input) ==
    many0_operator(level, binary_operator(BinaryOperators[level], input), input)

\* parser.rs:274-279
RECURSIVE parse_expr(_, _)
parse_expr(e, rem) ==
    IF rem = <<>> THEN e
    ELSE parse_expr(Binary(Head(rem)[1], e, Head(rem)[2]), Tail(rem))

folded(lhs, exprs) == Ok(parse_expr(lhs.val, exprs.val), exprs.rest)

binary_level(level, lhs) ==
    IF lhs.ok THEN folded(lhs, many0_binary(level, lhs.rest)) ELSE Fail

\* parser.rs:214-221
expr_a(input) == binary_level(1, expr_b(input))

\* parser.rs:223-230
expr_b(input) == binary_level(2, expr_c(input))

\* parser.rs:232-247
expr_c(input) == binary_level(3, expr_d(input))

\* parser.rs:249-260
expr_d(input) == binary_level(4, expr_e(input))

\* parser.rs:262-272
expr_e(input) == binary_level(5, expr_primitive(input))

\* parser.rs:161-163
expr(input) == expr_a(input)

scaled(r, unit, factor) ==
    IF r.ok /\ tag_no_case(unit, r.rest).ok
    THEN Ok(r.val * factor, tag_no_case(unit, r.rest).rest)
    ELSE Fail

\* parser.rs:339-344
duration(input) ==
    alt(scaled(integer(input), <<"s">>, 1000),
        alt(scaled(integer(input), <<"m", "s">>, 1),
            scaled(integer(input), <<"m">>, 1000 * 60)))

then_duration(r) == IF r.ok THEN push(r, duration(r.rest)) ELSE Fail

WindowFixed(length) == [kind |-> "Fixed", length |-> length, interval |-> length]

WindowSliding(length, interval) == [kind |-> "Sliding", length |-> length, interval |-> interval]

WindowPeriod(period) == [kind |-> "Period", period |-> period]

as_fixed(r) == IF r.ok THEN Ok(WindowFixed(r.val[1]), r.rest) ELSE Fail

as_sliding(r) == IF r.ok THEN Ok(WindowSliding(r.val[1], r.val[2]), r.rest) ELSE Fail

\* parser.rs:347-359
fixed_window(input) ==
    as_fixed(then_tag(then_sp(then_duration(then_sp(then_tag(then_sp(
        then_tag(Ok(<<>>, input), <<"f", "i", "x", "e", "d">>)), <<"(">>)))), <<")">>))

\* parser.rs:360-376
sliding_window(input) ==
    as_sliding(then_tag(then_sp(then_duration(then_sp(then_tag(then_sp(
        then_duration(then_sp(then_tag(then_sp(
            then_tag(Ok(<<>>, input), <<"s", "l", "i", "d", "i", "n", "g">>)),
        <<"(">>)))), <<",">>)))), <<")">>))

\* parser.rs:377-385
period_window(input) ==
    alt(value(WindowPeriod("Day"), tag_no_case(<<"d", "a", "y">>, input)),
        alt(value(WindowPeriod("Week"), tag_no_case(<<"w", "e", "e", "k">>, input)),
            alt(value(WindowPeriod("Month"), tag_no_case(<<"m", "o", "n", "t", "h">>, input)),
                value(WindowPeriod("Year"), tag_no_case(<<"y", "e", "a", "r">>, input)))))

window_body(r) ==
    IF r.ok
    THEN alt(fixed_window(r.rest), alt(sliding_window(r.rest), period_window(r.rest)))
    ELSE Fail

\* parser.rs:346-396
window(input) ==
    window_body(then_sp(then_tag(Ok(<<>>, input), <<"w", "i", "n", "d", "o", "w">>)))

----------------------------------------------------------------------------
(* The parsers applied to expressions and WINDOW clauses as written *)

MaxOps == 2

Names == << <<"a">>, <<"b">>, <<"c">>, <<"d">>, <<"e">> >>

Numbers == << <<"2", "0", "0", "0">>, <<"4">>, <<"2">>, <<"7">>, <<"1">> >>

\* the tokens of the binary operators
OperatorTokens ==
    { <<"o", "r">>, <<"a", "n", "d">>, <<"=">>, <<"!", "=">>, <<"<", ">">>, <<"<">>,
      <<"<", "=">>, <<">">>, <<">", "=">>, <<"+">>, <<"-">>, <<"*">>, <<"/">> }

\* one token or two of every level, for the longer expressions
ChainTokens == { <<"o", "r">>, <<"a", "n", "d">>, <<"=">>, <<"<", "=">>, <<"+">>, <<"*">> }

ArithmeticTokens == { <<"+">>, <<"-">>, <<"*">>, <<"/">> }

Prefixes == { <<>>, <<"-">>, <<"n", "o", "t", " ">> }

Written(prefix, operands, ops, paren, tight) ==
    [form |-> "expr", prefix |-> prefix, operands |-> operands, ops |-> ops,
     paren |-> paren, tight |-> tight]

\* operand op operand ..., spaced, over names: every token in expressions of one
\* or two operators, ChainTokens in longer ones; paren = k > 0 puts operands k and
\* k + 1 in parentheses
SpacedTexts ==
    UNION { { Written(p, Names, o, k, FALSE) :
                p \in Prefixes,
                o \in [1..n -> IF n <= 2 THEN OperatorTokens ELSE ChainTokens],
                k \in 0..n } : n \in 1..MaxOps }

\* the same over integer literals without spaces, as in tests::test_expr
TightTexts ==
    UNION { { Written(<<>>, Numbers, o, k, TRUE) :
                o \in [1..n -> ArithmeticTokens], k \in 0..n } : n \in 1..MaxOps }

ExprTexts == SpacedTexts \cup TightTexts

Counts == {-5, 0, 2, 4, 5}

Units == { <<"s">>, <<"m", "s">>, <<"m">> }

Durations == [n : Counts, unit : Units]

WindowTexts ==
    { [form |-> "window", kind |-> "fixed", durations |-> <<d>>] : d \in Durations }
    \cup { [form |-> "window", kind |-> "sliding", durations |-> <<d, e>>] :
             d \in Durations, e \in Durations }

RECURSIVE nat_chars(_)
nat_chars(n) ==
    IF n < 10 THEN << <<"0", "1", "2", "3", "4", "5", "6", "7", "8", "9">>[n + 1] >>
    ELSE nat_chars(n \div 10) \o nat_chars(n % 10)

int_chars(n) == IF n < 0 THEN <<"-">> \o nat_chars(-n) ELSE nat_chars(n)

duration_chars(d) == int_chars(d.n) \o d.unit

\* operand i with the parenthesis that opens or closes at it
piece(t, i) ==
    (IF t.paren = i THEN <<"(">> ELSE <<>>)
    \o t.operands[i]
    \o (IF t.paren > 0 /\ t.paren = i - 1 THEN <<")">> ELSE <<>>)

gap(t) == IF t.tight THEN <<>> ELSE <<" ">>

RECURSIVE chain_chars(_, _)
chain_chars(t, i) ==
    IF i > Len(t.ops) THEN piece(t, i)
    ELSE piece(t, i) \o gap(t) \o t.ops[i] \o gap(t) \o chain_chars(t, i + 1)

\* the characters of a text
chars_of(t) ==
    IF t.form = "expr" THEN t.prefix \o chain_chars(t, 1)
    ELSE IF t.kind = "fixed"
    THEN <<"w", "i", "n", "d", "o", "w", " ", "f", "i", "x", "e", "d", "(">>
         \o duration_chars(t.durations[1]) \o <<")">>
    ELSE <<"w", "i", "n", "d", "o", "w", " ", "s", "l", "i", "d", "i", "n", "g", "(">>
         \o duration_chars(t.durations[1]) \o <<",", " ">>
         \o duration_chars(t.durations[2]) \o <<")">>

\* everything but the parser's text and result
progVars == <<manager, inWatermark, nRows, lastStarts, prevStarts, emitted, closedBefore,
              closed, blob, savedFrom, phase, batch, ctx, damage, failures>>

\* no manager at work
ManagerIdle ==
    /\ manager = NewManager(CHOOSE w \in WindowSet : w.kind = "Fixed")
    /\ inWatermark = None
    /\ nRows = 0
    /\ lastStarts = {}
    /\ prevStarts = {}
    /\ closedBefore = {}
    /\ emitted = <<>>
    /\ closed = {}
    /\ blob = NoBlob
    /\ savedFrom = NewManager(CHOOSE w \in WindowSet : w.kind = "Fixed")
    /\ phase = "idle"
    /\ batch = <<>>
    /\ ctx = EmptyMap
    /\ damage = "none"
    /\ failures = <<>>

InitSql ==
    /\ \/ text \in ExprTexts
       \/ text \in WindowTexts
    /\ parsed = <<>>
    /\ reader = NoReader
    /\ ManagerIdle
    /\ StreamIdle

\* parser.rs:161-163 on an expression
ParseExpr ==
    /\ text.form = "expr"
    /\ parsed = <<>>
    /\ parsed' = <<expr(chars_of(text))>>
    /\ UNCHANGED <<text, reader, progVars, streamVars>>

\* parser.rs:346-396 on a WINDOW clause
ParseWindow ==
    /\ text.form = "window"
    /\ parsed = <<>>
    /\ parsed' = <<window(chars_of(text))>>
    /\ UNCHANGED <<text, reader, progVars, streamVars>>

NextSql == ParseExpr \/ ParseWindow

SpecSql == InitSql /\ [][NextSql]_vars


----------------------------------------------------------------------------
(* dataset/csv_reader.rs: schema inference over the records of a file *)

MaxRecords == 3

is_integer(str) == str # <<>> /\ span(Digit, str) = Len(str)

is_decimal(str) ==
    /\ span(Digit, str) > 0
    /\ Len(str) > span(Digit, str) + 1
    /\ str[span(Digit, str) + 1] = "."
    /\ is_integer(SubSeq(str, span(Digit, str) + 2, Len(str)))

unsigned(str) == IF str # <<>> /\ Head(str) = "-" THEN Tail(str) ELSE str

\* csv_reader.rs:167-189
infer_field_schema(str) ==
    IF str # <<>> /\ Head(str) = "\"" THEN "String"
    ELSE IF \/ tag_no_case(<<"t", "r", "u", "e">>, str) = Ok(str, <<>>)
            \/ tag_no_case(<<"f", "a", "l", "s", "e">>, str) = Ok(str, <<>>)
    THEN "Boolean"
    ELSE IF is_decimal(unsigned(str)) THEN "Float64"
    ELSE IF is_integer(unsigned(str)) THEN "Int64"
    ELSE "String"

\* csv_reader.rs:67-76: the header record, or c1, c2, ... for the first record's fields
headers_of(has_header, records) ==
    IF records = <<>> THEN <<>>
    ELSE IF has_header THEN records[1]
    ELSE [i \in 1..Len(records[1]) |-> <<"c">> \o nat_chars(i)]

\* the records read_record yields after the header
data_of(has_header, records) ==
    IF has_header /\ records # <<>> THEN Tail(records) ELSE records

\* csv_reader.rs:83-93: the tags seen in column i
column_type(rows, i) == {infer_field_schema(rows[r][i]) : r \in 1..Len(rows)}

\* a resolution that keeps a single tag only when it is numeric
resolve_single(possibilities) ==
    IF possibilities \in {{"Int64"}, {"Float64"}} THEN CHOOSE d \in possibilities : TRUE
    ELSE "String"

\* csv_reader.rs:95-115
resolve(possibilities) ==
    IF Cardinality(possibilities) = 1 THEN CHOOSE data_type \in possibilities : TRUE
    ELSE IF Cardinality(possibilities) = 2
    THEN IF "Int64" \in possibilities /\ "Float64" \in possibilities
         THEN "Float64"
         ELSE "String"
    ELSE "String"

Field(n, data_type) == [name |-> n, data_type |-> data_type]

fields_of(headers, rows) ==
    [i \in 1..Len(headers) |-> Field(headers[i], resolve(column_type(rows, i)))]

\* csv_reader.rs:61-118
infer_schema(options, records) ==
    Ok(fields_of(headers_of(options.has_header, records),
                 data_of(options.has_header, records)), <<>>)

\* the fields of a first column, and of a second
FirstValues ==
    { <<"1">>, <<"-", "2", ".", "5">>, <<"T", "R", "U", "E">>, <<"a", "b">>,
      <<"\"", "1">>, <<"1", ".">> }

SecondValues == { <<"7">>, <<"0", ".", "5">> }

\* the records of a given width
RecordSet(width) ==
    IF width = 1 THEN { <<v>> : v \in FirstValues }
    ELSE { <<"1">>, <<"T", "R", "U", "E">> } \X SecondValues

\* files of up to MaxRecords records of one width, after a header if there is one
CsvTexts ==
    UNION { { [form |-> "csv",
               options |-> [has_header |-> h],
               records |-> (IF h THEN << SubSeq(<< <<"x">>, <<"y">> >>, 1, width) >>
                                 ELSE <<>>) \o rows] :
                h \in BOOLEAN,
                rows \in [1..n -> RecordSet(width)] } :
            n \in 0..MaxRecords, width \in 1..2 }

InitCsv ==
    /\ text \in CsvTexts
    /\ parsed = <<>>
    /\ reader = NoReader
    /\ ManagerIdle
    /\ StreamIdle

\* csv_reader.rs:61-118 on the file
InferSchema ==
    /\ text.form = "csv"
    /\ parsed = <<>>
    /\ parsed' = <<infer_schema(text.options, text.records)>>
    /\ UNCHANGED <<text, reader, progVars, streamVars>>

NextCsv == InferSchema

SpecCsv == InitCsv /\ [][NextCsv]_vars

----------------------------------------------------------------------------
(* CsvReader::read_batch on a file of records *)

\* csv_reader.rs:129: the length of batch_records
ChunkSize == 100

\* usize::MAX (csv_reader.rs:128), cut to 2^31 - 1; no file has that many
\* records
UsizeMax == 2147483647

\* batch_size.unwrap_or(usize::MAX)
unwrap_or(batch_size, default) == IF batch_size.some THEN batch_size.val ELSE default

\* a reader that fills the whole slice whatever is left to read
read_count_whole(len, total_count) == len

\* csv_reader.rs:133: batch_records.len().min(total_count)
read_count(len, total_count) == Min(len, total_count)

\* CsvReader::read_batch_records on the first len entries of records: record
\* after record is read into the slice until it is full or read_record finds
\* the end of the file
\* read_record gives the record after the j-th, or finds the end of the file
read_record(file, pos, j) == pos + j < Len(file)

\* csv_reader.rs:148-153: num_records when the loop is left, the slice full
\* or read_record at the end of the file
read_records(file, pos, len) ==
    CHOOSE num_records \in 0..len :
        /\ \A j \in 0..(num_records - 1) : read_record(file, pos, j)
        /\ num_records < len => ~read_record(file, pos, num_records)

\* the slice with the first count entries read from the file
filled(file, pos, records, count) ==
    [count   |-> count,
     records |-> [i \in 1..Len(records) |-> IF i <= count THEN file[pos + i]
                                            ELSE records[i]]]

read_batch_records(file, pos, records, len) ==
    filled(file, pos, records, read_records(file, pos, len))

\* the files: record i holds the field i; short files, and files of one and
\* of more than two slices
FileLengths == (0..MaxRecords) \cup {ChunkSize, 2 * ChunkSize + 1}

Files == { [form |-> "file", records |-> [i \in 1..n |-> <<i>>]] : n \in FileLengths }

\* the batch sizes asked for
BatchSizes == {None, Some(0), Some(1), Some(2), Some(ChunkSize), Some(ChunkSize + 1)}

\* CsvOptions::open (csv_reader.rs:49-55) on a file
InitRead ==
    /\ text \in Files
    /\ parsed = <<>>
    /\ reader = [pc |-> "idle", pos |-> 0, calls |-> <<>>, total_count |-> 0,
                 batch_records |-> <<>>, builders |-> <<>>]
    /\ ManagerIdle
    /\ StreamIdle

\* csv_reader.rs:128-130: read_batch(batch_size) is called
ReadBatch ==
    /\ reader.pc = "idle"
    /\ Len(reader.calls) < MaxRecords
    /\ \E batch_size \in BatchSizes :
         reader' = [reader EXCEPT !.pc = "loop",
                                  !.calls = Append(@, batch_size),
                                  !.total_count = unwrap_or(batch_size, UsizeMax),
                                  !.batch_records = [i \in 1..ChunkSize |-> <<>>],
                                  !.builders = <<>>]
    /\ UNCHANGED <<text, parsed, progVars, streamVars>>

\* the slice read, or the loop left
read_step(rdr, r) ==
    IF r.count = 0 THEN [rdr EXCEPT !.pc = "return"]
    ELSE [rdr EXCEPT !.pos = @ + r.count,
                     !.total_count = @ - r.count,
                     !.batch_records = r.records,
                     !.builders = @ \o SubSeq(r.records, 1, r.count)]

\* csv_reader.rs:132-140: one turn of the loop
ReadLoop ==
    /\ reader.pc = "loop"
    /\ reader' =
         IF reader.total_count > 0
         THEN read_step(reader,
                        read_batch_records(text.records, reader.pos, reader.batch_records,
                                           read_count(Len(reader.batch_records),
                                                      reader.total_count)))
         ELSE [reader EXCEPT !.pc = "return"]
    /\ UNCHANGED <<text, parsed, progVars, streamVars>>

\* csv_reader.rs:142: the dataset of the rows appended is returned
ReadReturn ==
    /\ reader.pc = "return"
    /\ parsed' = Append(parsed, reader.builders)
    /\ reader' = [reader EXCEPT !.pc = "idle"]
    /\ UNCHANGED <<text, progVars, streamVars>>

NextRead == ReadBatch \/ ReadLoop \/ ReadReturn

SpecRead == InitRead /\ [][NextRead]_vars

\* a call that has begun goes on: weak fairness of ReadLoop and of ReadReturn,
\* which can take a step exactly when the call is in the loop and when it is
\* about to return
SpecReadFair ==
    /\ SpecRead
    /\ []<>(reader.pc # "loop") \/ []<><<ReadLoop>>_vars
    /\ []<>(reader.pc # "return") \/ []<><<ReadReturn>>_vars

----------------------------------------------------------------------------
(* Claims about the SQL parser (checked under SpecSql) *)

\* the operator a token stands for, and its precedence level, low to high
OperatorOf(token) ==
    CASE token = <<"o", "r">> -> "Or"
      [] token = <<"a", "n", "d">> -> "And"
      [] token = <<"=">> -> "Eq"
      [] token \in { <<"!", "=">>, <<"<", ">">> } -> "NotEq"
      [] token = <<"<">> -> "Lt"
      [] token = <<"<", "=">> -> "LtEq"
      [] token = <<">">> -> "Gt"
      [] token = <<">", "=">> -> "GtEq"
      [] token = <<"+">> -> "Plus"
      [] token = <<"-">> -> "Minus"
      [] token = <<"*">> -> "Multiply"
      [] token = <<"/">> -> "Divide"

LevelOf(token) ==
    CASE OperatorOf(token) = "Or" -> 1
      [] OperatorOf(token) = "And" -> 2
      [] OperatorOf(token) \in {"Eq", "NotEq", "Lt", "LtEq", "Gt", "GtEq"} -> 3
      [] OperatorOf(token) \in {"Plus", "Minus"} -> 4
      [] OperatorOf(token) \in {"Multiply", "Divide"} -> 5

ComparisonTokens == {token \in OperatorTokens : LevelOf(token) = 3}

\* operand i of a text as an expression
Leaf(t, i) ==
    IF t.operands = Names THEN Column(None, t.operands[i])
    ELSE ExprLiteral(Literal("Int", from_str(t.operands[i])))

\* the operands of a text with the parenthesised pair taken as one expression
Atoms(t) ==
    [i \in 1..(Len(t.ops) + 1 - (IF t.paren > 0 THEN 1 ELSE 0)) |->
        IF t.paren = 0 \/ i < t.paren THEN Leaf(t, i)
        ELSE IF i = t.paren
             THEN Binary(OperatorOf(t.ops[i]), Leaf(t, i), Leaf(t, i + 1))
             ELSE Leaf(t, i + 1)]

\* the operators between them
Between(t) ==
    [i \in 1..(Len(t.ops) - (IF t.paren > 0 THEN 1 ELSE 0)) |->
        IF t.paren = 0 \/ i < t.paren THEN t.ops[i] ELSE t.ops[i + 1]]

\* the last operator of the lowest level: where a left-associative reading splits
SplitOf(tokens) ==
    CHOOSE i \in 1..Len(tokens) :
        /\ \A j \in 1..Len(tokens) : LevelOf(tokens[i]) <= LevelOf(tokens[j])
        /\ \A j \in (i + 1)..Len(tokens) : LevelOf(tokens[i]) < LevelOf(tokens[j])

RECURSIVE Grouped(_, _)
GroupedAt(atoms, tokens, i) ==
    Binary(OperatorOf(tokens[i]),
           Grouped(SubSeq(atoms, 1, i), SubSeq(tokens, 1, i - 1)),
           Grouped(SubSeq(atoms, i + 1, Len(atoms)), SubSeq(tokens, i + 1, Len(tokens))))

\* the tree of atoms joined by tokens under the stated precedence
Grouped(atoms, tokens) ==
    IF tokens = <<>> THEN atoms[1] ELSE GroupedAt(atoms, tokens, SplitOf(tokens))

UnaryOf(prefix) == IF prefix = <<"-">> THEN "Neg" ELSE "Not"

\* the same with the prefix operator applied to the first atom alone
GroupedUnary(t) ==
    Grouped([Atoms(t) EXCEPT ![1] = Unary(UnaryOf(t.prefix), Atoms(t)[1])], Between(t))

ExprParsed == parsed # <<>> /\ text.form = "expr"

\* C22: a Window the parser produces from a WINDOW clause has length > 0 and
\* interval > 0, and a Sliding one a length that is a multiple of its interval;
\* a clause such as fixed(0s), fixed(-5m) or sliding(5m, 2m) is not accepted.
C22_WindowInvariant ==
    (parsed # <<>> /\ text.form = "window" /\ parsed[1].ok) =>
        /\ parsed[1].val.length > 0
        /\ parsed[1].val.interval > 0
        /\ parsed[1].val.kind = "Sliding" =>
              parsed[1].val.length % parsed[1].val.interval = 0

\* C23: binary operators group by precedence OR < AND < comparison < +,- < *,/,
\* to the left within a level, with parentheses overriding; the whole text is read.
C23_Precedence ==
    (ExprParsed /\ text.prefix = <<>>) =>
        parsed[1] = Ok(Grouped(Atoms(text), Between(text)), <<>>)

\* C24: a comparison between two names parses to the token's own operator,
\* with no input left over.
C24_ComparisonTokens ==
    (/\ ExprParsed
     /\ text.prefix = <<>> /\ text.paren = 0 /\ Len(text.ops) = 1
     /\ text.ops[1] \in ComparisonTokens) =>
        parsed[1] = Ok(Binary(OperatorOf(text.ops[1]), Leaf(text, 1), Leaf(text, 2)), <<>>)

\* C25: `a and b` parses to Binary{And, a, b}, and `a or b` to Binary{Or, a, b},
\* a different tree.
C25_AndIsAnd ==
    (/\ ExprParsed
     /\ text.prefix = <<>> /\ text.paren = 0 /\ Len(text.ops) = 1
     /\ text.ops[1] \in { <<"a", "n", "d">>, <<"o", "r">> }) =>
        /\ parsed[1] = Ok(Binary(OperatorOf(text.ops[1]), Leaf(text, 1), Leaf(text, 2)), <<>>)
        /\ expr(chars_of([text EXCEPT !.ops = << <<"a", "n", "d">> >>]))
              # expr(chars_of([text EXCEPT !.ops = << <<"o", "r">> >>]))

\* C26: a unary NOT or minus takes the operand next to it, not a binary
\* arithmetic expression, unless that expression is in parentheses:
\* `-a + b` is Binary{Plus, Unary{Neg, a}, b}.
C26_UnaryBindsTighter ==
    (/\ ExprParsed
     /\ text.prefix # <<>>
     /\ \A i \in 1..Len(text.ops) : text.ops[i] \in ArithmeticTokens) =>
        parsed[1] = Ok(GroupedUnary(text), <<>>)


----------------------------------------------------------------------------
(* Claims about CSV schema inference (checked under SpecCsv) *)

\* the tags observed in column i of the file
Observed(i) ==
    { infer_field_schema(data_of(text.options.has_header, text.records)[r][i]) :
        r \in 1..Len(data_of(text.options.has_header, text.records)) }

QuotedIsString ==
    \A r \in 1..Len(text.records) : \A i \in 1..Len(text.records[r]) :
        Head(text.records[r][i]) = "\"" => infer_field_schema(text.records[r][i]) = "String"

\* C27 as stated: {Int64} gives Int64, {Float64} Float64, {Int64, Float64}
\* Float64, and every other set of observed tags String; a value that begins
\* with a double quote is tagged String.
C27_Original ==
    (parsed # <<>> /\ text.form = "csv") =>
        /\ parsed[1].ok
        /\ \A i \in 1..Len(parsed[1].val) :
              parsed[1].val[i].data_type =
                 (IF Observed(i) = {"Int64"} THEN "Int64"
                  ELSE IF Observed(i) \in {{"Float64"}, {"Int64", "Float64"}} THEN "Float64"
                  ELSE "String")
        /\ QuotedIsString

\* C27 amended: a column with a single observed tag gets that tag's type,
\* Boolean included; {Int64, Float64} gives Float64; every other mixture, and a
\* column never observed, gives String; a value that begins with a double
\* quote is tagged String.
C27_Amended ==
    (parsed # <<>> /\ text.form = "csv") =>
        /\ parsed[1].ok
        /\ \A i \in 1..Len(parsed[1].val) :
              parsed[1].val[i].data_type =
                 (IF \E d \in {"Int64", "Float64", "Boolean", "String"} : Observed(i) = {d}
                  THEN CHOOSE d \in Observed(i) : TRUE
                  ELSE IF Observed(i) = {"Int64", "Float64"} THEN "Float64"
                  ELSE "String")
        /\ QuotedIsString

\* C27 witness: a file whose first column holds only a boolean and whose second
\* mixes an integer and a decimal was inferred as Boolean and Float64
C27_Witness ==
    /\ parsed # <<>> /\ text.form = "csv"
    /\ Len(parsed[1].val) = 2
    /\ Observed(1) = {"Boolean"} /\ parsed[1].val[1].data_type = "Boolean"
    /\ Observed(2) = {"Int64", "Float64"} /\ parsed[1].val[2].data_type = "Float64"


----------------------------------------------------------------------------
(* Claims about checkpoints in flight (checked under SpecStreamTicks) *)

\* C32: save_state_fn is called with the blobs of the periodic barriers in the
\* order in which the barriers were created: the blob written last belongs to
\* the most recently created barrier that completed.
C32_SavedInCreationOrder ==
    \A i, j \in 1..Len(persisted) :
        i < j => persisted[i].barrier < persisted[j].barrier


----------------------------------------------------------------------------
(* The event loop of the aggregate operator, its input and output recorded *)

\* the batches of the input edge: no row, a row of the first or of the third
\* window, a row of each of the first two windows
CutBatches == { <<>>,
                << [k |-> "a", v |-> 1, t |-> 100] >>,
                << [k |-> "b", v |-> 1, t |-> 2500] >>,
                << [k |-> "a", v |-> 1, t |-> 100], [k |-> "a", v |-> 2, t |-> 1500] >> }

CutWatermarks == {None, Some(2000), Some(5000)}

\* the DataSet events of a log
data_events(log) == SelectSeq(log, LAMBDA e : e.kind = "DataSet")

\* the datasets of the DataSet events of a log
datasets_of(log) == [j \in 1..Len(data_events(log)) |-> data_events(log)[j].dataset]

\* the events of a log before the barrier b
RECURSIVE before_barrier(_, _)
before_barrier(log, b) ==
    IF log = <<>> THEN <<>>
    ELSE IF Head(log).kind = "CreateCheckPoint" /\ Head(log).barrier = b THEN <<>>
    ELSE <<Head(log)>> \o before_barrier(Tail(log), b)

\* aggregate.rs:303-309 for a list of events: the manager after them and the
\* datasets yielded for them; a barrier is passed over
RECURSIVE replay(_, _, _)
RECURSIVE replay_from(_, _, _)
replay_from(r, events, datasets) == replay(r.manager, events, datasets \o r.datasets)

replay(mgr, events, datasets) ==
    IF events = <<>> THEN [manager |-> mgr, datasets |-> datasets]
    ELSE IF Head(events).kind # "DataSet" THEN replay(mgr, Tail(events), datasets)
    ELSE replay_from(aggregate(mgr, Head(events).dataset, Head(events).current_watermark),
                     Tail(events), datasets)

\* a manager whose save_state would take the windows out of it
manager_after_save_empty(mgr) == [mgr EXCEPT !.windows = EmptyMap]

\* aggregate.rs:96 and 312: save_state borrows the manager (&self) and the
\* barrier arm assigns nothing to it
manager_after_save(mgr) == mgr

InitCut ==
    /\ \E w \in WindowSet : /\ manager = NewManager(w)
                             /\ savedFrom = NewManager(w)
    /\ inWatermark = None
    /\ nRows = 0
    /\ lastStarts = {}
    /\ prevStarts = {}
    /\ closedBefore = {}
    /\ emitted = <<>>
    /\ closed = {}
    /\ blob = NoBlob
    /\ phase = "running"
    /\ batch = <<>>
    /\ ctx = EmptyMap
    /\ damage = "none"
    /\ ParseIdle
    /\ failures = <<>>
    /\ StreamIdle

\* aggregate.rs:305-309: a DataSet event; every dataset of manager.aggregate is
\* yielded with the event's watermark
OpDataSet ==
    /\ phase \in {"running", "restored"}
    /\ nEvents < MaxEvents
    /\ \E dataset \in CutBatches,
          current_watermark \in {w \in CutWatermarks : watermark_follows(inWatermark, w)} :
        /\ \E r \in {aggregate(manager, dataset, current_watermark)} :
             /\ manager' = r.manager
             /\ emitted' = r.datasets
             /\ closed' = closed \cup starts_of(r.datasets)
             /\ outLog' = outLog \o [j \in 1..Len(r.datasets) |->
                                       EventDataSet(out_watermark(current_watermark),
                                                    r.datasets[j])]
        /\ inLog' = Append(inLog, EventDataSet(current_watermark, dataset))
        /\ inWatermark' = current_watermark
        /\ nRows' = nRows + Len(dataset)
    /\ nEvents' = nEvents + 1
    /\ UNCHANGED <<lastStarts, prevStarts, closedBefore, blob, savedFrom, phase, batch,
                   ctx, damage, failures, parseVars>>
    /\ UNCHANGED <<hasSaveFn, barriers, bcast, srcOut, srcDone, aggPc, aggPending,
                   dsEnded, delivered, taskPc, persisted, signalled>>

\* aggregate.rs:310-318: a CreateCheckPoint event, of a periodic or of an exit
\* barrier that the source has recorded its state in; the loop is left after
\* an exit barrier.  One checkpoint is taken, of the first pipeline.
OpBarrier ==
    /\ phase = "running"
    /\ barriers = <<>>
    /\ \E is_exit \in BOOLEAN :
         LET b == Len(barriers) + 1
             barrier == source_forwarded(set_state(
                            NewBarrier(node_count, source_count, is_exit),
                            SourceId, <<nEvents>>))
         IN  /\ barriers' = Append(barriers, agg_on_barrier(barrier, AggregateId, manager))
             /\ manager' = manager_after_save(manager)
             /\ inLog' = Append(inLog, EventCreateCheckPoint(b))
             /\ outLog' = Append(outLog, EventCreateCheckPoint(b))
             /\ phase' = IF agg_breaks(EventCreateCheckPoint(b), barriers')
                          THEN "done" ELSE phase
    /\ UNCHANGED <<inWatermark, nRows, lastStarts, prevStarts, emitted, closedBefore,
                   closed, blob, savedFrom, batch, ctx, damage, failures, parseVars>>
    /\ UNCHANGED <<hasSaveFn, bcast, srcOut, srcDone, nEvents, aggPc, aggPending,
                   dsEnded, delivered, taskPc, persisted, signalled>>

\* aggregate.rs:288-298: the operator of a second pipeline, built with the
\* states of the barrier b as prev_state; its input goes on after the barrier
OpRestore ==
    /\ phase \in {"running", "done"}
    /\ \E b \in 1..Len(barriers) :
         /\ \E r \in {restore_node(NewManager(manager.window), take_state(barriers[b]),
                                   AggregateId)} :
              /\ r.ok
              /\ manager' = r.manager
              /\ savedFrom' = r.manager
         /\ closedBefore' = starts_of(datasets_of(before_barrier(outLog, b)))
         /\ closed' = starts_of(datasets_of(before_barrier(outLog, b)))
    /\ phase' = "restored"
    /\ inLog' = <<>>
    /\ outLog' = <<>>
    /\ emitted' = <<>>
    /\ UNCHANGED <<inWatermark, nRows, lastStarts, prevStarts, blob, batch, ctx, damage,
                   failures, parseVars>>
    /\ UNCHANGED <<hasSaveFn, barriers, bcast, srcOut, srcDone, nEvents, aggPc,
                   aggPending, dsEnded, delivered, taskPc, persisted, signalled>>

NextCut == OpDataSet \/ OpBarrier \/ OpRestore

SpecCut == InitCut /\ [][NextCut]_vars


----------------------------------------------------------------------------
(* Claims about the checkpoint as a cut of the operator's run (SpecCut) *)

\* the barriers the operator of the running pipeline has received
Received == {b \in 1..Len(barriers) :
               \E p \in 1..Len(inLog) : inLog[p] = EventCreateCheckPoint(b)}

\* the window map a fresh operator loads from the state written into b
WindowsIn(b) ==
    load_state(NewManager(manager.window), take_state(barriers[b])[AggregateId])
        .manager.windows

\* the starts of the windows emitted before the barrier b, by this pipeline
\* and by the one it was restored from
EmittedBefore(b) == closedBefore \cup starts_of(datasets_of(before_barrier(outLog, b)))

\* the state written into a barrier is the state of the manager that has
\* taken exactly the DataSet events received before the barrier
CutIsReplay ==
    \A b \in Received :
        take_state(barriers[b])[AggregateId]
            = save_state(replay(savedFrom, before_barrier(inLog, b), <<>>).manager)

\* no window emitted before a barrier is in the state written into it
CutWithoutEmitted ==
    \A b \in Received : DOMAIN WindowsIn(b) \cap EmittedBefore(b) = {}

\* a restored pipeline emits no window that was emitted before the barrier
RestoredEmitsNew ==
    phase = "restored" => starts_of(datasets_of(outLog)) \cap closedBefore = {}

\* C31: the state the operator writes into a barrier is a consistent cut (the
\* window map after exactly the DataSet events received before the barrier,
\* without the windows emitted before it), and a pipeline restored from it
\* never emits again a window that was emitted before the barrier.
C31_ConsistentCut == CutIsReplay /\ CutWithoutEmitted /\ RestoredEmitsNew


\* the barrier arm has run: a CreateCheckPoint event was added to the input
TakesCheckPoint ==
    /\ Len(inLog') = Len(inLog) + 1
    /\ inLog'[Len(inLog')].kind = "CreateCheckPoint"

\* the run of the operator on the DataSet events alone
WithoutBarriers == replay(savedFrom, data_events(inLog), <<>>)

\* C33: processing a CreateCheckPoint event leaves the window map and every
\* group state of the manager unchanged, and the datasets the operator emits
\* are those it emits for the same DataSet events with no barrier among them.
C33_CheckpointLeavesFlow ==
    /\ [][TakesCheckPoint => manager' = manager]_vars
    /\ [](/\ manager = WithoutBarriers.manager
          /\ datasets_of(outLog) = WithoutBarriers.datasets)

\* C33 witness: a periodic barrier was taken between two DataSet events while
\* a window was open, and a window was emitted after it
C33_Witness ==
    /\ Len(inLog) = 3
    /\ inLog[1].kind = "DataSet"
    /\ inLog[2].kind = "CreateCheckPoint"
    /\ inLog[3].kind = "DataSet"
    /\ ~barriers[inLog[2].barrier].is_exit
    /\ DOMAIN WindowsIn(inLog[2].barrier) # {}
    /\ Len(datasets_of(outLog)) > Len(datasets_of(before_barrier(outLog, inLog[2].barrier)))


----------------------------------------------------------------------------
(* Claims about the groups of the window map (checked under Spec) *)

\* the groups of a window map: (start, key) of every AggregateState
GroupsOf(windows) ==
    UNION {{<<s, k>> : k \in DOMAIN windows[s].children} : s \in DOMAIN windows}

\* the window map `after` differs from `before` at most in the group (s, k)
OnlyGroupChanged(before, after, s, k) ==
    /\ GroupsOf(after) = GroupsOf(before) \cup {<<s, k>>}
    /\ DOMAIN after = DOMAIN before \cup {s}
    /\ \A g \in GroupsOf(before) \ {<<s, k>>} :
          after[g[1]].children[g[2]] = before[g[1]].children[g[2]]
    /\ \A x \in DOMAIN before :
          /\ after[x].start_time = before[x].start_time
          /\ after[x].end_time = before[x].end_time

\* the calls aggregate() makes of process_dataset for a batch of one row of
\* RowSet: (start, end, key, rows)
RowCalls ==
    UNION { { <<w[1], w[2], group_by_exprs(<<row>>, manager.group_exprs)[1][1], <<row>>>> :
                w \in windows_of(manager.window, row.t) } : row \in RowSet }

\* C34: accumulating the rows of (window start s, key k) changes only the
\* AggregateState at windows[s].children[k]; every other group of the same
\* window and of every other window keeps its values and expression state,
\* and the template aggr_exprs of the manager stays as it was built.
C34_GroupsIsolated ==
    /\ \A c \in RowCalls :
          OnlyGroupChanged(manager.windows,
                           process_dataset(manager.windows, manager.aggr_exprs,
                                           c[1], c[2], c[3], c[4]),
                           c[1], c[3])
    /\ manager.aggr_exprs = AggrExprs

\* C34 witness: two windows are open, one of them with two groups whose sums
\* differ, and a row accumulated into one of the groups changes its state
C34_Witness ==
    /\ Cardinality(DOMAIN manager.windows) >= 2
    /\ \E c \in RowCalls :
          /\ c[1] \in DOMAIN manager.windows
          /\ Cardinality(DOMAIN manager.windows[c[1]].children) = 2
          /\ c[3] \in DOMAIN manager.windows[c[1]].children
          /\ \E k \in DOMAIN manager.windows[c[1]].children :
                manager.windows[c[1]].children[k].aggr_exprs
                    # manager.windows[c[1]].children[c[3]].aggr_exprs
          /\ process_dataset(manager.windows, manager.aggr_exprs,
                             c[1], c[2], c[3], c[4])[c[1]].children[c[3]]
                # manager.windows[c[1]].children[c[3]]


\* C35: in every state of the manager, after any batches and after load_state
\* of the bytes of save_state, every entry (k, w) of the window map has
\* w.start_time = k and at least one group, every group has one value per
\* aggregate expression, and every emitted dataset has at least one row.
C35_WindowMapWellFormed ==
    /\ \A k \in DOMAIN manager.windows :
          /\ manager.windows[k].start_time = k
          /\ DOMAIN manager.windows[k].children # {}
          /\ \A g \in DOMAIN manager.windows[k].children :
                Len(manager.windows[k].children[g].values) = Len(manager.aggr_exprs)
    /\ \A j \in 1..Len(emitted) :
          \A c \in 1..Len(emitted[j].columns) : Len(emitted[j].columns[c]) >= 1

\* C35 witness: a manager restored by load_state holds a window of two groups,
\* and the last batch before the checkpoint emitted a window
C35_Witness ==
    /\ phase = "restored"
    /\ \E k \in DOMAIN manager.windows :
          Cardinality(DOMAIN manager.windows[k].children) = 2
    /\ Len(emitted) >= 1


----------------------------------------------------------------------------
(* Claims about CsvReader::read_batch (checked under SpecReadFair) *)

\* the number of rows of the first n returned datasets
RECURSIVE RowsBefore(_)
RowsBefore(n) == IF n = 0 THEN 0 ELSE RowsBefore(n - 1) + Len(parsed[n])

\* the rows appended by a call that has not returned yet
Appended == IF reader.pc = "idle" THEN <<>> ELSE reader.builders

\* the i-th call returned the next records of the file, in file order
NextRecords(i) ==
    parsed[i] = SubSeq(text.records, RowsBefore(i - 1) + 1, RowsBefore(i))

\* the input was exhausted when the i-th call returned
ExhaustedAfter(i) == RowsBefore(i) = Len(text.records)

\* what has been read is the head of the file: no record is lost or read twice
ReadInOrder ==
    /\ reader.pos = RowsBefore(Len(parsed)) + Len(Appended)
    /\ reader.pos <= Len(text.records)
    /\ Appended = SubSeq(text.records, RowsBefore(Len(parsed)) + 1, reader.pos)
    /\ \A i \in 1..Len(parsed) : NextRecords(i)

\* the size of every returned dataset against the batch size asked for
BatchSizeKept ==
    \A i \in 1..Len(parsed) :
        /\ reader.calls[i].some =>
              /\ Len(parsed[i]) <= reader.calls[i].val
              /\ Len(parsed[i]) < reader.calls[i].val => ExhaustedAfter(i)
        /\ ~reader.calls[i].some => ExhaustedAfter(i)
        /\ ExhaustedAfter(i - 1) => Len(parsed[i]) = 0

============================================================================
